---- MODULE Spec2Model ----
(***************************************************************************)
(* Model of the feature-engineering and ensemble-decision core of          *)
(* trading-models-api:                                                     *)
(*   src/utils/crypto_features.js      CryptoFeatureEngineer               *)
(*   src/api/predict-crypto-handler.js extractFeatureVector,               *)
(*                                     ensembleCryptoPredictions           *)
(*   src/api/predict.js                ensemblePredictions                 *)
(*                                                                         *)
(* JavaScript numbers are modelled as exact rationals.  A JavaScript value *)
(* is a pair <<n, d>>:                                                     *)
(*   d >= 1          the finite number n/d in lowest terms                 *)
(*   <<0, 0>>        NaN                                                   *)
(*   <<1, 0>>        +Infinity        <<-1, 0>>   -Infinity                *)
(*   <<0, -1>>       null             <<0, -2>>   undefined                *)
(***************************************************************************)
EXTENDS Integers, Sequences, FiniteSets, TLC

VARIABLES
    predictions,    \* the list of probability triples handed to the ensemble
    decision,       \* what the last ensemble call produced
    engineer,       \* the fields of the CryptoFeatureEngineer instance in use
    data,           \* the Dataset the last call on the engineer worked on
    callLog,        \* what the last call on the engineer did (pushes, cache traffic)
    run,            \* the calls made on the engineer so far, and whether the last one threw
    inputData,      \* the Dataset handed to extractFeatureVector
    inputList,      \* the feature list handed to extractFeatureVector
    extraction,     \* what the last extractFeatureVector call produced
    probe,          \* a call of one of the array utilities: its arguments and what it returned
    inference,      \* a runOptimizedInference / runEnsemblePredictions call: its models and its progress
    request,        \* a request in a prediction handler: its progress, its response, its storage call
    loader,         \* the LazyModelLoader instance and the loads in flight
    limiter         \* the TwelveDataRateLimiter instance, the clock and the waitIfNeeded callers

ensembleVars == <<predictions, decision>>
pipelineVars == <<engineer, data, callLog, run>>
extractVars  == <<inputData, inputList, extraction>>
utilityVars  == <<probe>>
serviceVars  == <<inference, request, loader, limiter>>

vars == <<predictions, decision, engineer, data, callLog, run, inputData, inputList, extraction, probe,
         inference, request, loader, limiter>>

(***************************************************************************)
(* JavaScript values and arithmetic                                        *)
(***************************************************************************)
NaN   == <<0, 0>>
PInf  == <<1, 0>>
NInf  == <<-1, 0>>
Null  == <<0, -1>>
Undef == <<0, -2>>

AbsInt(a) == IF a < 0 THEN -a ELSE a

RECURSIVE Gcd(_, _)
Gcd(a, b) == IF b = 0 THEN a ELSE Gcd(b, a % b)

\* the finite number n/d (d # 0) in lowest terms with a positive denominator
Reduced(n, d, g) == IF d < 0 THEN <<(-n) \div g, (-d) \div g>> ELSE <<n \div g, d \div g>>

Rat(n, d) == Reduced(n, d, Gcd(AbsInt(n), AbsInt(d)))

Num(n) == <<n, 1>>

IsFiniteNum(v) == v[2] >= 1           \* typeof number and finite

\* ToNumber: null -> 0, undefined -> NaN
ToNum(v) == IF v = Null THEN Num(0) ELSE IF v = Undef THEN NaN ELSE v

\* the global isNaN(v): coerces first
JsIsNaN(v) == ToNum(v) = NaN

\* the global isFinite(v): coerces first
JsIsFinite(v) == IsFiniteNum(ToNum(v))

\* truthiness of a value that is a number, null or undefined
Truthy(v) == (IsFiniteNum(v) /\ v[1] # 0) \/ v = PInf \/ v = NInf

\* v || w
OrElse(v, w) == IF Truthy(v) THEN v ELSE w

Sign(v) == IF v[1] > 0 THEN 1 ELSE IF v[1] < 0 THEN -1 ELSE 0

\* the sum of two finite numbers, g = gcd(a2, b2)
AddFinite(a, b, g) == Rat(a[1] * (b[2] \div g) + b[1] * (a[2] \div g), (a[2] \div g) * b[2])

\* a + b on numbers
AddNum(a, b) ==
    IF a = NaN \/ b = NaN THEN NaN
    ELSE IF a[2] = 0 /\ b[2] = 0 THEN (IF a = b THEN a ELSE NaN)
    ELSE IF a[2] = 0 THEN a
    ELSE IF b[2] = 0 THEN b
    ELSE AddFinite(a, b, Gcd(a[2], b[2]))

\* x + y: both operands are converted by ToNumber first
JsAdd(x, y) == AddNum(ToNum(x), ToNum(y))

NegNum(a) == IF a = NaN THEN NaN ELSE <<-a[1], a[2]>>

JsNeg(x) == NegNum(ToNum(x))

JsSub(x, y) == JsAdd(x, JsNeg(y))

\* the product of two finite numbers, cross-reduced by g1 = gcd(|a1|, b2) and g2 = gcd(|b1|, a2)
MulFinite(a, b, g1, g2) == Rat((a[1] \div g1) * (b[1] \div g2), (a[2] \div g2) * (b[2] \div g1))

MulNum(a, b) ==
    IF a = NaN \/ b = NaN THEN NaN
    ELSE IF a[2] = 0 \/ b[2] = 0
         THEN (IF Sign(a) * Sign(b) = 0 THEN NaN
               ELSE IF Sign(a) * Sign(b) > 0 THEN PInf ELSE NInf)
    ELSE MulFinite(a, b, Gcd(AbsInt(a[1]), b[2]), Gcd(AbsInt(b[1]), a[2]))

JsMul(x, y) == MulNum(ToNum(x), ToNum(y))

\* the quotient of two finite numbers, b # 0, reduced by g1 = gcd(|a1|, |b1|) and g2 = gcd(a2, b2)
DivFinite(a, b, g1, g2) == Rat((a[1] \div g1) * (b[2] \div g2), (a[2] \div g2) * (b[1] \div g1))

DivNum(a, b) ==
    IF a = NaN \/ b = NaN THEN NaN
    ELSE IF a[2] = 0 /\ b[2] = 0 THEN NaN
    ELSE IF a[2] = 0 THEN (IF Sign(a) * (IF Sign(b) < 0 THEN -1 ELSE 1) > 0 THEN PInf ELSE NInf)
    ELSE IF b[2] = 0 THEN Num(0)
    ELSE IF b[1] = 0
         THEN (IF a[1] = 0 THEN NaN ELSE IF a[1] > 0 THEN PInf ELSE NInf)
    ELSE DivFinite(a, b, Gcd(AbsInt(a[1]), AbsInt(b[1])), Gcd(a[2], b[2]))

JsDiv(x, y) == DivNum(ToNum(x), ToNum(y))

\* a < b on finite numbers, g = gcd(a2, b2)
LtFinite(a, b, g) == a[1] * (b[2] \div g) < b[1] * (a[2] \div g)

\* a < b on numbers; false when either side is NaN
LtNum(a, b) ==
    IF a = NaN \/ b = NaN THEN FALSE
    ELSE IF a = b THEN FALSE
    ELSE IF a = NInf \/ b = PInf THEN TRUE
    ELSE IF a = PInf \/ b = NInf THEN FALSE
    ELSE LtFinite(a, b, Gcd(a[2], b[2]))

JsLt(x, y) == LtNum(ToNum(x), ToNum(y))
JsGt(x, y) == JsLt(y, x)

LeNum(a, b) == LtNum(a, b) \/ (a = b /\ a # NaN)

JsLe(x, y) == LeNum(ToNum(x), ToNum(y))
JsGe(x, y) == JsLe(y, x)

\* Math.abs
AbsNum(a) == IF a = NaN THEN NaN ELSE <<AbsInt(a[1]), a[2]>>

JsAbs(x) == AbsNum(ToNum(x))

\* Math.max(a, b) and Math.min(a, b)
MaxNum(a, b) == IF a = NaN \/ b = NaN THEN NaN ELSE IF LtNum(a, b) THEN b ELSE a
MinNum(a, b) == IF a = NaN \/ b = NaN THEN NaN ELSE IF LtNum(b, a) THEN b ELSE a

JsMax2(x, y) == MaxNum(ToNum(x), ToNum(y))
JsMin2(x, y) == MinNum(ToNum(x), ToNum(y))

\* Math.max(...arr) and Math.min(...arr); -Infinity / +Infinity on no arguments.
\* Math.max is associative, so the arguments lo..hi are combined by halves.
RECURSIVE MaxFrom(_, _, _)
MaxFrom(arr, lo, hi) ==
    IF lo > hi THEN NInf
    ELSE IF lo = hi THEN JsMax2(NInf, arr[lo])
    ELSE LET mid == (lo + hi) \div 2
         IN  JsMax2(MaxFrom(arr, lo, mid), MaxFrom(arr, mid + 1, hi))

JsMaxOf(arr) == MaxFrom(arr, 1, Len(arr))

RECURSIVE MinFrom(_, _, _)
MinFrom(arr, lo, hi) ==
    IF lo > hi THEN PInf
    ELSE IF lo = hi THEN JsMin2(PInf, arr[lo])
    ELSE LET mid == (lo + hi) \div 2
         IN  JsMin2(MinFrom(arr, lo, mid), MinFrom(arr, mid + 1, hi))

JsMinOf(arr) == MinFrom(arr, 1, Len(arr))

\* arr.reduce((a, b) => a + b, 0); the sum is exact, so the terms lo..hi are added by halves
RECURSIVE SumFrom(_, _, _)
SumFrom(arr, lo, hi) ==
    IF lo > hi THEN Num(0)
    ELSE IF lo = hi THEN JsAdd(Num(0), arr[lo])
    ELSE LET mid == (lo + hi) \div 2
         IN  JsAdd(SumFrom(arr, lo, mid), SumFrom(arr, mid + 1, hi))

JsSum(arr) == SumFrom(arr, 1, Len(arr))

\* arr.indexOf(v) with strict equality, 0-based, -1 when absent (NaN never matches)
RECURSIVE IndexFrom(_, _, _)
IndexFrom(arr, v, i) ==
    IF i > Len(arr) THEN -1
    ELSE IF arr[i] = v /\ v # NaN THEN i - 1
    ELSE IndexFrom(arr, v, i + 1)

JsIndexOf(arr, v) == IndexFrom(arr, v, 1)

\* arr[i] for a 0-based index i; undefined outside the array
JsAt(arr, i) == IF i >= 0 /\ i < Len(arr) THEN arr[i + 1] ELSE Undef

(***************************************************************************)
(* Ensemble Decision Engine                                                *)
(***************************************************************************)
NoDecision == [fn |-> "none"]
Thrown(msg) == [status |-> "error", message |-> msg]

classNames == <<"DOWN", "NEUTRAL", "UP">>

\* classNames[c] for a 0-based c; undefined outside
ClassNameAt(c) == IF c >= 0 /\ c < Len(classNames) THEN classNames[c + 1] ELSE "undefined"

\* ensemble[i] accumulated over all predictions, then divided by their number
AverageCrypto(preds) ==
    [i \in 1..3 |->
        JsDiv(JsSum([p \in 1..Len(preds) |-> OrElse(JsAt(preds[p], i - 1), Num(0))]),
              Num(Len(preds)))]

\* the body of ensembleCryptoPredictions after its empty-list check
ensembleCryptoDecision(preds) ==
    LET ensemble       == AverageCrypto(preds)
        sum            == JsSum(ensemble)
        normalized     == [i \in 1..3 |-> JsDiv(ensemble[i], sum)]
        predictedClass == JsIndexOf(normalized, JsMaxOf(normalized))
    IN  [status        |-> "ok",
         class         |-> predictedClass,
         className     |-> ClassNameAt(predictedClass),
         confidence    |-> JsAt(normalized, predictedClass),
         probabilities |-> [down |-> normalized[1], neutral |-> normalized[2], up |-> normalized[3]],
         modelsUsed    |-> Len(preds)]

\* a variant that omits the empty-list check
ensembleCryptoPredictions_unchecked(preds) == ensembleCryptoDecision(preds)

ensembleCryptoPredictions(preds) ==
    IF Len(preds) = 0 THEN Thrown("No predictions to ensemble")
    ELSE ensembleCryptoDecision(preds)

ensemblePredictions(preds) ==
    IF Len(preds) = 0 THEN Thrown("No predictions to ensemble")
    ELSE
        LET numClasses     == Len(preds[1])
            ensemble       == [i \in 1..numClasses |->
                                 JsDiv(JsSum([p \in 1..Len(preds) |-> JsAt(preds[p], i - 1)]),
                                       Num(Len(preds)))]
            predictedClass == JsIndexOf(ensemble, JsMaxOf(ensemble))
        IN  [status        |-> "ok",
             class         |-> predictedClass,
             confidence    |-> JsAt(ensemble, predictedClass),
             probabilities |-> [down |-> JsAt(ensemble, 0), neutral |-> JsAt(ensemble, 1), up |-> JsAt(ensemble, 2)]]

(***************************************************************************)
(* CryptoFeatureEngineer: safe math and array operations.                  *)
(* Arrays are sequences; the JavaScript index i is position i + 1.         *)
(***************************************************************************)
\* the array with positions 1..n, built element by element (a new array, as .map builds)
ArrayOf(f) == SubSeq(f, 1, Len(f))

\* a denominator test that leaves out null and NaN
DivisibleBy_nonzero(den) == den # Num(0)

\* den !== 0 && den !== null && !isNaN(den)
DivisibleBy(den) == den # Num(0) /\ den # Null /\ ~JsIsNaN(den)

\* safeDivide with an array numerator and an array denominator
safeDivide(numerator, denominator, fillValue) ==
    ArrayOf([i \in 1..Len(numerator) |->
        LET den == JsAt(denominator, i - 1)
        IN  IF DivisibleBy(den) THEN JsDiv(numerator[i], den) ELSE fillValue])

\* safeDivide with an array numerator and a scalar denominator
safeDivide_arrayByScalar(numerator, denominator, fillValue) ==
    ArrayOf([i \in 1..Len(numerator) |->
        IF DivisibleBy(denominator) THEN JsDiv(numerator[i], denominator) ELSE fillValue])

\* safeDivide with a scalar numerator and an array denominator
safeDivide_scalarByArray(numerator, denominator, fillValue) ==
    ArrayOf([i \in 1..Len(denominator) |->
        IF DivisibleBy(denominator[i]) THEN JsDiv(numerator, denominator[i]) ELSE fillValue])

\* safeDivide with two scalars
safeDivide_scalars(numerator, denominator, fillValue) ==
    IF DivisibleBy(denominator) THEN JsDiv(numerator, denominator) ELSE fillValue

\* the default parameter fillValue = 0.0: an omitted (undefined) argument is 0
FillValueOr0(fillValue) == IF fillValue = Undef THEN Num(0) ELSE fillValue

\* the clip closure of safeClip; a bound of Null is an absent bound
clip(val, minVal, maxVal) ==
    IF val = Null \/ JsIsNaN(val) THEN Num(0)
    ELSE IF minVal # Null /\ maxVal # Null THEN JsMax2(minVal, JsMin2(maxVal, val))
    ELSE IF minVal # Null THEN JsMax2(minVal, val)
    ELSE IF maxVal # Null THEN JsMin2(maxVal, val)
    ELSE val

safeClip(values, minVal, maxVal) ==
    ArrayOf([i \in 1..Len(values) |-> clip(values[i], minVal, maxVal)])

\* a shift that reads the samples on the wrong side
shift_lookahead(arr, periods) ==
    IF periods = 0 THEN arr
    ELSE IF periods < 0
    THEN ArrayOf([i \in 1..Len(arr) |-> IF i + periods >= 1 THEN arr[i + periods] ELSE Null])
    ELSE ArrayOf([i \in 1..Len(arr) |-> IF i + periods <= Len(arr) THEN arr[i + periods] ELSE Null])

shift(arr, periods) ==
    IF periods = 0 THEN arr
    ELSE IF periods > 0
    THEN ArrayOf([i \in 1..Len(arr) |-> IF i - periods >= 1 THEN arr[i - periods] ELSE Null])
    ELSE ArrayOf([i \in 1..Len(arr) |-> IF i + AbsInt(periods) <= Len(arr) THEN arr[i + AbsInt(periods)] ELSE Null])

\* a ConservativeFeatureEngineer.shift whose positive branch tests i > periods
ConservativeFeatureEngineer_shift_late(arr, periods) ==
    IF periods = 0 THEN arr
    ELSE IF periods > 0
    THEN ArrayOf([i \in 1..Len(arr) |-> IF i - 1 > periods THEN arr[i - periods] ELSE Null])
    ELSE ArrayOf([i \in 1..Len(arr) |-> IF i - 1 < Len(arr) - AbsInt(periods) THEN arr[i + AbsInt(periods)] ELSE Null])

\* ConservativeFeatureEngineer.shift (forex_features.js); i - 1 is the JavaScript index
ConservativeFeatureEngineer_shift(arr, periods) ==
    IF periods = 0 THEN arr
    ELSE IF periods > 0
    THEN ArrayOf([i \in 1..Len(arr) |-> IF i - 1 >= periods THEN arr[i - periods] ELSE Null])
    ELSE ArrayOf([i \in 1..Len(arr) |-> IF i - 1 < Len(arr) - AbsInt(periods) THEN arr[i + AbsInt(periods)] ELSE Null])

\* v !== null && !isNaN(v)
IsValid(v) == v # Null /\ ~JsIsNaN(v)

\* arr.slice(start, i + 1).filter(valid) for the window ending at position i
WindowVals(arr, i, window) ==
    LET start == IF i - window + 1 > 1 THEN i - window + 1 ELSE 1
    IN  SelectSeq(SubSeq(arr, start, i), IsValid)

\* minPeriods || Math.floor(window / 2); an omitted minPeriods is 0
ActualMinPeriods(window, minPeriods) ==
    IF minPeriods # 0 THEN minPeriods ELSE window \div 2

\* operation is one of "mean", "sum", "max", "min"
rollingWindow(arr, window, minPeriods, operation) ==
    ArrayOf([i \in 1..Len(arr) |->
        LET windowVals == WindowVals(arr, i, window)
        IN  IF Len(windowVals) >= ActualMinPeriods(window, minPeriods)
            THEN CASE operation = "mean" -> JsDiv(JsSum(windowVals), Num(Len(windowVals)))
                   [] operation = "sum"  -> JsSum(windowVals)
                   [] operation = "max"  -> JsMaxOf(windowVals)
                   [] operation = "min"  -> JsMinOf(windowVals)
                   [] OTHER              -> Null
            ELSE Null])

rollingMax(arr, window, minPeriods) == rollingWindow(arr, window, minPeriods, "max")
rollingMin(arr, window, minPeriods) == rollingWindow(arr, window, minPeriods, "min")
rollingSum(arr, window, minPeriods) == rollingWindow(arr, window, minPeriods, "sum")

pctChange(arr, periods) ==
    LET shifted == shift(arr, periods)
    IN  ArrayOf([i \in 1..Len(arr) |->
            LET prev == shifted[i]
            IN  IF prev = Null \/ prev = Num(0) \/ JsIsNaN(prev) THEN Null
                ELSE JsDiv(JsSub(arr[i], prev), prev)])

(***************************************************************************)
(* ConservativeFeatureEngineer (forex_features.js): rolling and expanding  *)
(* aggregates and the features built as "rolling, else expanding".         *)
(* Math.sqrt(n/d) is the triple <<n, d, 2>>.                               *)
(***************************************************************************)
\* windowVals.reduce((a, b) => a + b, 0) / windowVals.length
MeanOf(windowVals) == JsDiv(JsSum(windowVals), Num(Len(windowVals)))

JsSqrt(v) == IF IsFiniteNum(v) /\ v[1] >= 0 THEN <<v[1], v[2], 2>> ELSE NaN

\* Math.pow(val - mean, 2)
SquaredDistance(val, mean) == JsMul(JsSub(val, mean), JsSub(val, mean))

\* the square root of the mean squared distance from the mean
StdAround(windowVals, mean) ==
    JsSqrt(JsDiv(JsSum(ArrayOf([k \in 1..Len(windowVals) |-> SquaredDistance(windowVals[k], mean)])),
                 Num(Len(windowVals))))

StdOf(windowVals) == StdAround(windowVals, MeanOf(windowVals))

\* the loop body of rolling / expanding / rollingStd / expandingStd
AggregateOrNull(windowVals, least, operation) ==
    IF Len(windowVals) >= least
    THEN IF operation = "std" THEN StdOf(windowVals) ELSE MeanOf(windowVals)
    ELSE Null

\* minPeriods || window; an omitted minPeriods is 0
MinPeriodsOrWindow(window, minPeriods) == IF minPeriods # 0 THEN minPeriods ELSE window

\* ConservativeFeatureEngineer.rolling
rolling(arr, window, minPeriods) ==
    ArrayOf([i \in 1..Len(arr) |->
        AggregateOrNull(WindowVals(arr, i, window), MinPeriodsOrWindow(window, minPeriods), "mean")])

\* ConservativeFeatureEngineer.expanding
expanding(arr, minPeriods) ==
    ArrayOf([i \in 1..Len(arr) |-> AggregateOrNull(SelectSeq(SubSeq(arr, 1, i), IsValid), minPeriods, "mean")])

\* ConservativeFeatureEngineer.rollingStd
rollingStd(arr, window, minPeriods) ==
    ArrayOf([i \in 1..Len(arr) |->
        AggregateOrNull(WindowVals(arr, i, window), MinPeriodsOrWindow(window, minPeriods), "std")])

\* ConservativeFeatureEngineer.expandingStd
expandingStd(arr, minPeriods) ==
    ArrayOf([i \in 1..Len(arr) |-> AggregateOrNull(SelectSeq(SubSeq(arr, 1, i), IsValid), minPeriods, "std")])

\* a combination that always takes the expanding value
RollingElseExpanding_expandingOnly(rollingVals, expandingVals) ==
    ArrayOf([i \in 1..Len(rollingVals) |-> expandingVals[i]])

\* rollingVals.map((r, i) => r !== null ? r : expandingVals[i])
RollingElseExpanding(rollingVals, expandingVals) ==
    ArrayOf([i \in 1..Len(rollingVals) |-> IF rollingVals[i] # Null THEN rollingVals[i] ELSE expandingVals[i]])

\* addConservativeMovingAverages: the column <prefix>_sma_<period>
sma(close, period) == RollingElseExpanding(rolling(close, period, period), expanding(close, 1))

\* addRealizedVolatility: the column <prefix>_volatility_<window>, from the returns column
volatility(returns, window) == RollingElseExpanding(rollingStd(returns, window, window), expandingStd(returns, 2))

\* addVolumeFeatures: the column <prefix>_volume_ma
volume_ma(volume) == RollingElseExpanding(rolling(volume, 20, 20), expanding(volume, 1))

(***************************************************************************)
(* The Dataset (df): a map from column names to arrays.                    *)
(***************************************************************************)
Has(df, col) == col \in DOMAIN df

\* a null where an array is expected (what _calculateVolumeMa and _calculateAtr return for null)
NoSeries == <<Undef>>

\* a column holding a string of one non-numeric character: truthy, not an array, with a
\* length and indexable, without map or filter
NotAnArray == <<<<0, -3>>>>

\* col[i] read for arithmetic: a character of the string converts to NaN, as undefined does
Indexed(col) == IF col = NotAnArray THEN <<>> ELSE col

\* df[col] = arr
Put(df, col, arr) == (col :> arr) @@ df

\* delete df[col] for every col of cols
Delete(df, cols) == [k \in DOMAIN df \ cols |-> df[k]]

\* arr[i] at position i of another array's map callback; undefined past the end
At(arr, i) == IF i >= 1 /\ i <= Len(arr) THEN arr[i] ELSE Undef

\* `${tf}_${field}`
Col(tf, field) == tf \o "_" \o field

(***************************************************************************)
(* Foundation features                                                     *)
(***************************************************************************)
\* the three columns _addBasicFeatures writes for one timeframe
AddBasicFor(df, tf) ==
    IF ~(\A f \in {"open", "high", "low", "close"} : Has(df, Col(tf, f)) /\ df[Col(tf, f)] # NotAnArray) THEN df
    ELSE
        LET o == df[Col(tf, "open")]
            h == df[Col(tf, "high")]
            l == df[Col(tf, "low")]
            c == df[Col(tf, "close")]
            ret   == safeDivide(ArrayOf([i \in 1..Len(c) |-> JsSub(c[i], At(o, i))]), o, Num(0))
            range == safeDivide(ArrayOf([i \in 1..Len(h) |-> JsSub(h[i], At(l, i))]), c, Num(0))
            body  == safeDivide(ArrayOf([i \in 1..Len(c) |-> JsAbs(JsSub(c[i], At(o, i)))]),
                                ArrayOf([i \in 1..Len(h) |-> JsSub(h[i], At(l, i))]), Num(0))
        IN  Put(Put(Put(df, Col(tf, "return"), ret), Col(tf, "range"), range), Col(tf, "body_ratio"), body)

_addBasicFeatures(df) == AddBasicFor(AddBasicFor(AddBasicFor(df, "1h"), "4h"), "1d")

\* the true range series and its rolling mean, as _calculateAtr computes them on a cache miss
AtrSeries(df, tf, period) ==
    LET high      == df[Col(tf, "high")]
        low       == Indexed(df[Col(tf, "low")])
        close     == df[Col(tf, "close")]
        closePrev == shift(close, 1)
        tr == ArrayOf([i \in 1..Len(high) |->
                 IF high[i] = Null \/ At(low, i) = Null THEN Null
                 ELSE IF At(closePrev, i) = Null THEN JsSub(high[i], At(low, i))
                 ELSE JsMax2(JsSub(high[i], At(low, i)),
                             JsMax2(JsAbs(JsSub(high[i], At(closePrev, i))),
                                    JsAbs(JsSub(At(low, i), At(closePrev, i)))))])
        half == period \div 2
    IN  rollingWindow(tr, period, IF half > 1 THEN half ELSE 1, "mean")

\* the series _calculateVolumeMa stores on a cache miss
VolumeMaSeries(df, tf, window) == rollingWindow(df[Col(tf, "volume")], window, window \div 2, "mean")

\* _safeClv
_safeClv(high, low, close) ==
    LET numerator == ArrayOf([i \in 1..Len(high) |->
                        JsSub(JsSub(OrElse(At(close, i), Num(0)), OrElse(At(low, i), Num(0))),
                              JsSub(OrElse(high[i], Num(0)), OrElse(At(close, i), Num(0))))])
        denominator == ArrayOf([i \in 1..Len(high) |->
                        JsSub(OrElse(high[i], Num(0)), OrElse(At(low, i), Num(0)))])
    IN  safeDivide(numerator, denominator, Num(0))

(***************************************************************************)
(* Balance constraints (constructor)                                       *)
(***************************************************************************)
maxBullish == 15
maxBearish == 15
maxNeutral == 20

\* this.bullishFeatures.length <= this.maxBullish: an off-by-one cap test
_canAddBullish_inclusive(bullish) == Len(bullish) <= maxBullish

_canAddBullish(bullish) == Len(bullish) < maxBullish

_canAddBearish(bearish) == Len(bearish) < maxBearish

_canAddNeutral(neutral) == Len(neutral) < maxNeutral

(***************************************************************************)
(* Directional signals: the column each block of addDirectionalFeatures    *)
(* computes.  volMa is the value _calculateVolumeMa returned.              *)
(***************************************************************************)
Zero == Num(0)
One  == Num(1)

\* safeDivide(df['1h_volume'], volMa)
VolSurge(df, volMa) == safeDivide(df["1h_volume"], volMa, Zero)

volume_on_breakout_up(df, volMa) ==
    LET high         == df["1h_high"]
        past10High   == rollingMax(shift(high, 1), 10, 5)
        volSurge     == VolSurge(df, volMa)
    IN  ArrayOf([i \in 1..Len(high) |->
            IF JsGt(high[i], OrElse(past10High[i], Zero)) THEN OrElse(At(volSurge, i), Zero) ELSE Zero])

accumulation_volume(df) ==
    LET vol         == df["1h_volume"]
        clv         == _safeClv(df["1h_high"], df["1h_low"], df["1h_close"])
        clvPositive == safeClip(clv, Zero, Null)
        accumulation == rollingSum(ArrayOf([i \in 1..Len(clvPositive) |->
                            JsMul(OrElse(clvPositive[i], Zero), OrElse(At(vol, i), Zero))]), 24, 12)
        volTotal    == rollingSum(vol, 24, 12)
    IN  safeDivide(accumulation, volTotal, Zero)

support_bounce_strength(df, volMa) ==
    LET close    == df["1h_close"]
        support  == rollingMin(df["4h_low"], 20, 10)
        distToSupport == safeDivide(ArrayOf([i \in 1..Len(close) |->
                              JsSub(OrElse(close[i], Zero), OrElse(At(support, i), Zero))]), support, Zero)
        volSurge == VolSurge(df, volMa)
    IN  ArrayOf([i \in 1..Len(distToSupport) |->
            JsMul(IF JsGe(distToSupport[i], Rat(-2, 100)) /\ JsLe(distToSupport[i], Rat(3, 100)) THEN One ELSE Zero,
                  OrElse(At(volSurge, i), Zero))])

bullish_momentum(df, closeCol) == safeClip(pctChange(df[closeCol], 3), Zero, Null)

higher_highs(df) ==
    LET high   == df["1h_high"]
        shift1 == shift(high, 1)
        shift2 == shift(high, 2)
    IN  ArrayOf([i \in 1..Len(high) |->
            IF JsGt(high[i], OrElse(shift1[i], NInf)) /\ JsGt(OrElse(shift1[i], NInf), OrElse(shift2[i], NInf))
            THEN One ELSE Zero])

bullish_body_strength(df) ==
    LET open  == df["1h_open"]
        close == df["1h_close"]
        high  == df["1h_high"]
        low   == df["1h_low"]
        bodySize == safeDivide(ArrayOf([i \in 1..Len(close) |-> JsSub(OrElse(close[i], Zero), OrElse(At(open, i), Zero))]),
                               ArrayOf([i \in 1..Len(high) |-> JsSub(OrElse(high[i], Zero), OrElse(At(low, i), Zero))]),
                               Zero)
    IN  ArrayOf([i \in 1..Len(close) |->
            JsMul(IF JsGt(OrElse(close[i], Zero), OrElse(At(open, i), Zero)) THEN One ELSE Zero,
                  OrElse(bodySize[i], Zero))])

\* volume / rolling-20 mean volume, 1 where the mean is missing
VolRatio(df) ==
    safeDivide(df["1h_volume"], rollingWindow(df["1h_volume"], 20, 10, "mean"), One)

\* the sample before position i, the sample itself (or 0) at the first position
PrevClose(close, i) == IF i > 1 THEN close[i - 1] ELSE OrElse(close[i], Zero)

positive_volume_delta(df) ==
    LET close    == df["1h_close"]
        volRatio == VolRatio(df)
    IN  ArrayOf([i \in 1..Len(close) |->
            JsMul(IF JsGt(OrElse(close[i], Zero), OrElse(PrevClose(close, i), Zero)) THEN One ELSE Zero,
                  OrElse(At(volRatio, i), Zero))])

volume_on_breakdown(df, volMa) ==
    LET low       == df["1h_low"]
        past10Low == rollingMin(shift(low, 1), 10, 5)
        volSurge  == VolSurge(df, volMa)
    IN  ArrayOf([i \in 1..Len(low) |->
            IF JsLt(OrElse(low[i], PInf), OrElse(past10Low[i], PInf)) THEN OrElse(At(volSurge, i), Zero) ELSE Zero])

distribution_patterns(df) ==
    LET vol         == df["1h_volume"]
        clv         == _safeClv(df["1h_high"], df["1h_low"], df["1h_close"])
        clvNegative == safeClip(clv, Null, Zero)
        clvNegativeAbs == ArrayOf([i \in 1..Len(clvNegative) |-> JsAbs(OrElse(clvNegative[i], Zero))])
        distribution == rollingSum(ArrayOf([i \in 1..Len(clvNegativeAbs) |->
                            JsMul(OrElse(clvNegativeAbs[i], Zero), OrElse(At(vol, i), Zero))]), 24, 12)
        volTotal    == rollingSum(vol, 24, 12)
    IN  safeDivide(distribution, volTotal, Zero)

resistance_rejection_strength(df, volMa) ==
    LET high       == df["1h_high"]
        close      == df["1h_close"]
        resistance == rollingMax(df["4h_high"], 20, 10)
        volSurge   == VolSurge(df, volMa)
    IN  ArrayOf([i \in 1..Len(high) |->
            LET r == OrElse(At(resistance, i), Zero)
                c == OrElse(At(close, i), Zero)
            IN  JsMul(IF JsGt(OrElse(high[i], Zero), r) /\ JsLt(c, r) THEN One ELSE Zero,
                      OrElse(At(volSurge, i), Zero))])

bearish_momentum(df, closeCol) ==
    LET clipped == safeClip(pctChange(df[closeCol], 3), Null, Zero)
    IN  ArrayOf([i \in 1..Len(clipped) |-> JsAbs(OrElse(clipped[i], Zero))])

lower_lows(df) ==
    LET low    == df["1h_low"]
        shift1 == shift(low, 1)
        shift2 == shift(low, 2)
    IN  ArrayOf([i \in 1..Len(low) |->
            IF JsLt(OrElse(low[i], PInf), OrElse(shift1[i], PInf)) /\ JsLt(OrElse(shift1[i], PInf), OrElse(shift2[i], PInf))
            THEN One ELSE Zero])

bearish_body_strength(df) ==
    LET open  == df["1h_open"]
        close == df["1h_close"]
        high  == df["1h_high"]
        low   == df["1h_low"]
        bodySize == safeDivide(ArrayOf([i \in 1..Len(open) |-> JsSub(OrElse(open[i], Zero), OrElse(At(close, i), Zero))]),
                               ArrayOf([i \in 1..Len(high) |-> JsSub(OrElse(high[i], Zero), OrElse(At(low, i), Zero))]),
                               Zero)
    IN  ArrayOf([i \in 1..Len(close) |->
            JsMul(IF JsLt(OrElse(close[i], Zero), OrElse(At(open, i), Zero)) THEN One ELSE Zero,
                  OrElse(At(bodySize, i), Zero))])

negative_volume_delta(df) ==
    LET close    == df["1h_close"]
        volRatio == VolRatio(df)
    IN  ArrayOf([i \in 1..Len(close) |->
            JsMul(IF JsLt(OrElse(close[i], Zero), OrElse(PrevClose(close, i), Zero)) THEN One ELSE Zero,
                  OrElse(At(volRatio, i), Zero))])

\* the candidate signals in the order addDirectionalFeatures attempts them
BullishCandidates ==
    <<"volume_on_breakout_up", "accumulation_volume", "support_bounce_strength", "bullish_momentum_1h",
      "bullish_momentum_4h", "higher_highs", "bullish_body_strength", "positive_volume_delta">>

BearishCandidates ==
    <<"volume_on_breakdown", "distribution_patterns", "resistance_rejection_strength", "bearish_momentum_1h",
      "bearish_momentum_4h", "lower_lows", "bearish_body_strength", "negative_volume_delta">>

HasAll(df, cols) == \A c \in cols : Has(df, c)

\* the input test of a candidate's if-statement, without its cap test; volMa is NoSeries when null
InputsPresent(name, df, volMa) ==
    CASE name = "volume_on_breakout_up"         -> HasAll(df, {"1h_high", "1h_volume"}) /\ volMa # NoSeries
      [] name = "accumulation_volume"           -> HasAll(df, {"1h_volume", "1h_high", "1h_low", "1h_close"})
      [] name = "support_bounce_strength"       -> HasAll(df, {"4h_low", "1h_close", "1h_volume"}) /\ volMa # NoSeries
      [] name = "bullish_momentum_1h"           -> Has(df, "1h_close")
      [] name = "bullish_momentum_4h"           -> Has(df, "4h_close")
      [] name = "higher_highs"                  -> Has(df, "1h_high")
      [] name = "bullish_body_strength"         -> HasAll(df, {"1h_open", "1h_close", "1h_high", "1h_low"})
      [] name = "positive_volume_delta"         -> HasAll(df, {"1h_volume", "1h_close"})
      [] name = "volume_on_breakdown"           -> HasAll(df, {"1h_low", "1h_volume"}) /\ volMa # NoSeries
      [] name = "distribution_patterns"         -> HasAll(df, {"1h_volume", "1h_high", "1h_low", "1h_close"})
      [] name = "resistance_rejection_strength" -> HasAll(df, {"4h_high", "1h_high", "1h_close", "1h_volume"}) /\ volMa # NoSeries
      [] name = "bearish_momentum_1h"           -> Has(df, "1h_close")
      [] name = "bearish_momentum_4h"           -> Has(df, "4h_close")
      [] name = "lower_lows"                    -> Has(df, "1h_low")
      [] name = "bearish_body_strength"         -> HasAll(df, {"1h_open", "1h_close", "1h_high", "1h_low"})
      [] name = "negative_volume_delta"         -> HasAll(df, {"1h_volume", "1h_close"})

\* the column a candidate's try-block assigns
DirectionalColumn(name, df, volMa) ==
    CASE name = "volume_on_breakout_up"         -> volume_on_breakout_up(df, volMa)
      [] name = "accumulation_volume"           -> accumulation_volume(df)
      [] name = "support_bounce_strength"       -> support_bounce_strength(df, volMa)
      [] name = "bullish_momentum_1h"           -> bullish_momentum(df, "1h_close")
      [] name = "bullish_momentum_4h"           -> bullish_momentum(df, "4h_close")
      [] name = "higher_highs"                  -> higher_highs(df)
      [] name = "bullish_body_strength"         -> bullish_body_strength(df)
      [] name = "positive_volume_delta"         -> positive_volume_delta(df)
      [] name = "volume_on_breakdown"           -> volume_on_breakdown(df, volMa)
      [] name = "distribution_patterns"         -> distribution_patterns(df)
      [] name = "resistance_rejection_strength" -> resistance_rejection_strength(df, volMa)
      [] name = "bearish_momentum_1h"           -> bearish_momentum(df, "1h_close")
      [] name = "bearish_momentum_4h"           -> bearish_momentum(df, "4h_close")
      [] name = "lower_lows"                    -> lower_lows(df)
      [] name = "bearish_body_strength"         -> bearish_body_strength(df)
      [] name = "negative_volume_delta"         -> negative_volume_delta(df)

(***************************************************************************)
(* The engineer: an instance is a record e of its fields,                  *)
(*   featureNames, bullishFeatures, bearishFeatures, neutralFeatures,      *)
(*   directionalClarityFeatures, _cachedVolMa, _cachedAtr,                 *)
(* together with the Dataset df it is working on and a log of the current  *)
(* call: capSkipped (candidates met at the cap), cacheReads (what each     *)
(* cache lookup returned) and cacheComputes (keys computed on a miss).     *)
(***************************************************************************)
\* config.minDataPoints || 50; an absent option is 0
minDataPoints(config) == IF config.minDataPoints # 0 THEN config.minDataPoints ELSE 50

\* new CryptoFeatureEngineer(config): the fields the constructor sets
NewEngineer(config) ==
    [minDataPoints              |-> minDataPoints(config),
     featureNames               |-> <<>>,
     bullishFeatures            |-> <<>>,
     bearishFeatures            |-> <<>>,
     neutralFeatures            |-> <<>>,
     directionalClarityFeatures |-> <<>>,
     _cachedVolMa               |-> <<>>,
     _cachedAtr                 |-> <<>>]

atrPeriod    == 14
nanThreshold == Rat(1, 10)

\* pushes: for every list.push(name) of the call, <<list, name, list.length before the push>>
\* balance: for every enforceDirectionalBalance of the call, the two lists it found, the two
\* lists it left and the names it returned
\* caught: the candidates whose try-block threw
EmptyLog == [capSkipped |-> {}, pushes |-> <<>>, cacheReads |-> <<>>, cacheComputes |-> <<>>, balance |-> <<>>,
             caught |-> {}]

\* a clearCache that forgets to reset the volume-MA cache
clearCache_atrOnly(e) == [e EXCEPT !._cachedAtr = <<>>]

\* clearCache
clearCache(e) == [e EXCEPT !._cachedVolMa = <<>>, !._cachedAtr = <<>>]

\* a cache as a map from keys to series; <<>> is the empty object {}
CacheHas(cache, key) == key \in DOMAIN cache /\ cache[key] # NoSeries

\* _calculateVolumeMa: the state after the call; the returned value is the cache entry
_calculateVolumeMa(st, tf, window) ==
    LET cacheKey == tf \o "_vol_ma_" \o ToString(window)
        miss     == ~CacheHas(st.e._cachedVolMa, cacheKey)
        computed == IF Has(st.df, Col(tf, "volume")) THEN VolumeMaSeries(st.df, tf, window) ELSE NoSeries
        cache    == IF miss THEN Put(st.e._cachedVolMa, cacheKey, computed) ELSE st.e._cachedVolMa
    IN  [st EXCEPT !.e._cachedVolMa = cache,
                   !.log.cacheComputes = IF miss /\ computed # NoSeries THEN Append(@, cacheKey) ELSE @,
                   !.log.cacheReads = Append(@, <<cacheKey, cache[cacheKey]>>),
                   !.ret = cache[cacheKey]]

\* _calculateAtr: the state after the call, the returned value in ret
_calculateAtr(st, tf, period) ==
    LET cacheKey == tf \o "_atr_" \o ToString(period)
    IN  IF CacheHas(st.e._cachedAtr, cacheKey)
        THEN [st EXCEPT !.ret = st.e._cachedAtr[cacheKey],
                        !.log.cacheReads = Append(@, <<cacheKey, st.e._cachedAtr[cacheKey]>>)]
        ELSE IF ~HasAll(st.df, {Col(tf, "high"), Col(tf, "low"), Col(tf, "close")})
        THEN [st EXCEPT !.ret = NoSeries]
        ELSE LET atr == AtrSeries(st.df, tf, period)
             IN  [st EXCEPT !.e._cachedAtr = Put(@, cacheKey, atr),
                            !.log.cacheComputes = Append(@, cacheKey),
                            !.log.cacheReads = Append(@, <<cacheKey, atr>>),
                            !.ret = atr]

\* Step 2 of engineerFeatures for one timeframe
AtrStep(st, tf) ==
    IF HasAll(st.df, {Col(tf, "high"), Col(tf, "low"), Col(tf, "close")})
    THEN LET after == _calculateAtr(st, tf, atrPeriod)
         IN  [after EXCEPT !.df = Put(@, Col(tf, "atr"), after.ret)]
    ELSE st

(***************************************************************************)
(* Statement sequences.  RunSteps(body, st, lo, hi) is the state after     *)
(* statements lo..hi of the named function body, run in order from state   *)
(* st, each on the state the one before it left; a statement that throws   *)
(* ends the sequence.  It is defined below, after the bodies.              *)
(***************************************************************************)
RECURSIVE RunSteps(_, _, _, _)

(***************************************************************************)
(* addDirectionalFeatures                                                  *)
(***************************************************************************)
\* one bullish block: its column is computed and its name pushed only under the cap and
\* with its inputs present
TryBullish(st, name, present, col) ==
    IF _canAddBullish(st.e.bullishFeatures) /\ present
    THEN [st EXCEPT !.df = Put(@, name, col),
                    !.e.bullishFeatures = Append(@, name),
                    !.log.pushes = Append(@, <<"bullish", name, Len(st.e.bullishFeatures)>>)]
    ELSE IF ~_canAddBullish(st.e.bullishFeatures)
    THEN [st EXCEPT !.log.capSkipped = @ \cup {name}]
    ELSE st

TryBearish(st, name, present, col) ==
    IF _canAddBearish(st.e.bearishFeatures) /\ present
    THEN [st EXCEPT !.df = Put(@, name, col),
                    !.e.bearishFeatures = Append(@, name),
                    !.log.pushes = Append(@, <<"bearish", name, Len(st.e.bearishFeatures)>>)]
    ELSE IF ~_canAddBearish(st.e.bearishFeatures)
    THEN [st EXCEPT !.log.capSkipped = @ \cup {name}]
    ELSE st

\* block k for candidate name: the eight bullish blocks come first, then the eight bearish
TryCandidate(st, k, name, present, col) ==
    IF k <= Len(BullishCandidates) THEN TryBullish(st, name, present, col)
    ELSE TryBearish(st, name, present, col)

Candidate(k) == (BullishCandidates \o BearishCandidates)[k]

\* the try-block of the candidate throws: rollingMin(df['4h_low'], 20, 10) calls
\* arr.slice(...).filter on a string, a TypeError.  4h_low is the only column of the
\* Datasets that can hold a string when the blocks run, and no other block reads it.
BlockThrows(name, df) == name = "support_bounce_strength" /\ df["4h_low"] = NotAnArray

\* the cap test of block k
UnderCap(st, k) ==
    IF k <= Len(BullishCandidates) THEN _canAddBullish(st.e.bullishFeatures) ELSE _canAddBearish(st.e.bearishFeatures)

\* a block that lets the error of its computation escape
DirectionalBlock_uncaught(st, k) ==
    IF UnderCap(st, k) /\ InputsPresent(Candidate(k), st.df, st.ret) /\ BlockThrows(Candidate(k), st.df)
    THEN [st EXCEPT !.thrown = TRUE, !.ret = <<<<Candidate(k), "TypeError: filter is not a function">>>>]
    ELSE TryCandidate(st, k, Candidate(k), InputsPresent(Candidate(k), st.df, st.ret),
                      DirectionalColumn(Candidate(k), st.df, st.ret))

\* block k; st.ret holds volMa, the value _calculateVolumeMa returned at the top; an error
\* thrown in the try-block is caught and logged, before the column is assigned
DirectionalBlock(st, k) ==
    IF UnderCap(st, k) /\ InputsPresent(Candidate(k), st.df, st.ret) /\ BlockThrows(Candidate(k), st.df)
    THEN [st EXCEPT !.log.caught = @ \cup {Candidate(k)}]
    ELSE TryCandidate(st, k, Candidate(k), InputsPresent(Candidate(k), st.df, st.ret),
                      DirectionalColumn(Candidate(k), st.df, st.ret))

\* const volMa = this._calculateVolumeMa(df, '1h', 24), then the sixteen blocks
addDirectionalFeatures(st) ==
    RunSteps("addDirectionalFeatures", _calculateVolumeMa(st, "1h", 24),
             1, Len(BullishCandidates) + Len(BearishCandidates))

(***************************************************************************)
(* enforceDirectionalBalance: the state after, the removed names in ret    *)
(***************************************************************************)
\* a slice that drops the excess from the front of the list
DropLast_fromFront(arr, excess) == SubSeq(arr, excess + 1, Len(arr))

\* arr.slice(0, -excess) and arr.slice(-excess) for 0 < excess <= Len(arr)
DropLast(arr, excess) == SubSeq(arr, 1, Len(arr) - excess)
TakeLast(arr, excess) == SubSeq(arr, Len(arr) - excess + 1, Len(arr))

\* the lists as the call leaves them and the names it returns
Balanced(st, bullish, bearish, removed) ==
    [st EXCEPT !.e.bullishFeatures = bullish,
               !.e.bearishFeatures = bearish,
               !.ret = removed,
               !.log.balance = Append(@, [bullish |-> st.e.bullishFeatures, bearish |-> st.e.bearishFeatures,
                                          keptBullish |-> bullish, keptBearish |-> bearish,
                                          removed |-> removed])]

enforceDirectionalBalance(st) ==
    LET nBullish == Len(st.e.bullishFeatures)
        nBearish == Len(st.e.bearishFeatures)
    IN  IF nBullish > nBearish
        THEN Balanced(st, DropLast(st.e.bullishFeatures, nBullish - nBearish), st.e.bearishFeatures,
                      TakeLast(st.e.bullishFeatures, nBullish - nBearish))
        ELSE IF nBearish > nBullish
        THEN Balanced(st, st.e.bullishFeatures, DropLast(st.e.bearishFeatures, nBearish - nBullish),
                      TakeLast(st.e.bearishFeatures, nBearish - nBullish))
        ELSE Balanced(st, st.e.bullishFeatures, st.e.bearishFeatures, <<>>)

(***************************************************************************)
(* addDirectionalClarityFeatures                                           *)
(***************************************************************************)
\* the normalize closure: min-max over the whole series
normalize(arr) ==
    LET valid == SelectSeq(arr, IsValid)
        min   == JsMinOf(valid)
        max   == JsMaxOf(valid)
    IN  IF Len(valid) = 0 \/ max = min THEN ArrayOf([i \in 1..Len(arr) |-> Zero])
        ELSE ArrayOf([i \in 1..Len(arr) |-> JsDiv(JsSub(OrElse(arr[i], Zero), min), JsSub(max, min))])

\* scores[0].map((_, i) => scores.reduce((sum, arr) => sum + (arr[i] || 0), 0) / scores.length)
MeanScore(scores) ==
    ArrayOf([i \in 1..Len(scores[1]) |->
        JsDiv(JsSum([k \in 1..Len(scores) |-> OrElse(At(scores[k], i), Zero)]), Num(Len(scores)))])

\* block 1: directional_clarity and directional_bias
ClarityBlock(st) ==
    LET bullishCols == SelectSeq(st.e.bullishFeatures, LAMBDA f : Has(st.df, f))
        bearishCols == SelectSeq(st.e.bearishFeatures, LAMBDA f : Has(st.df, f))
    IN  IF Len(st.e.bullishFeatures) > 0 /\ Len(st.e.bearishFeatures) > 0
           /\ Len(bullishCols) > 0 /\ Len(bearishCols) > 0
        THEN LET bullishScore == MeanScore(ArrayOf([k \in 1..Len(bullishCols) |-> normalize(st.df[bullishCols[k]])]))
                 bearishScore == MeanScore(ArrayOf([k \in 1..Len(bearishCols) |-> normalize(st.df[bearishCols[k]])]))
                 clarity == ArrayOf([i \in 1..Len(bullishScore) |->
                               JsAbs(JsSub(OrElse(bullishScore[i], Zero), OrElse(At(bearishScore, i), Zero)))])
                 bias    == ArrayOf([i \in 1..Len(bullishScore) |->
                               JsSub(OrElse(bullishScore[i], Zero), OrElse(At(bearishScore, i), Zero))])
             IN  [st EXCEPT !.df = Put(Put(@, "directional_clarity", clarity), "directional_bias", bias),
                            !.e.directionalClarityFeatures = @ \o <<"directional_clarity", "directional_bias">>]
        ELSE st

\* block 2: trend_consistency
TrendBlock(st) ==
    IF HasAll(st.df, {"1h_close", "4h_close", "1d_close"})
    THEN LET h1Mom == pctChange(st.df["1h_close"], 3)
             h4Mom == pctChange(st.df["4h_close"], 1)
             d1Mom == pctChange(st.df["1d_close"], 1)
             Pos(v) == JsGt(OrElse(v, Zero), Zero)
             sameSign1h4h == ArrayOf([i \in 1..Len(h1Mom) |-> IF Pos(h1Mom[i]) = Pos(At(h4Mom, i)) THEN One ELSE Zero])
             sameSign4h1d == ArrayOf([i \in 1..Len(h4Mom) |-> IF Pos(h4Mom[i]) = Pos(At(d1Mom, i)) THEN One ELSE Zero])
             col == ArrayOf([i \in 1..Len(sameSign1h4h) |->
                       JsDiv(JsAdd(OrElse(sameSign1h4h[i], Zero), OrElse(At(sameSign4h1d, i), Zero)), Num(2))])
         IN  [st EXCEPT !.df = Put(@, "trend_consistency", col),
                        !.e.directionalClarityFeatures = Append(@, "trend_consistency")]
    ELSE st

\* .map(v => safeClip([1 - v], 0, 1)[0])
OneMinusClipped(arr) == ArrayOf([i \in 1..Len(arr) |-> clip(JsSub(One, arr[i]), Zero, One)])

\* (h || 0) - (low[i] || 0) over the 1h bars
CurrentRange(df) ==
    ArrayOf([i \in 1..Len(df["1h_high"]) |->
        JsSub(OrElse(df["1h_high"][i], Zero), OrElse(At(df["1h_low"], i), Zero))])

choppiness_index(df) ==
    LET pct == pctChange(df["1h_close"], 3)
        mom == ArrayOf([i \in 1..Len(pct) |-> JsAbs(OrElse(pct[i], Zero))])
        vol == safeDivide(df["1h_atr"], df["1h_close"], Zero)
    IN  OneMinusClipped(safeDivide(mom, vol, Zero))

range_compression(df) ==
    LET currentRange == CurrentRange(df)
        avgRange     == rollingWindow(currentRange, 24, 12, "mean")
    IN  OneMinusClipped(safeDivide(currentRange, avgRange, One))

sideways_movement(df) ==
    LET pct == pctChange(df["1h_close"], 10)
        priceChange == ArrayOf([i \in 1..Len(pct) |-> JsAbs(OrElse(pct[i], Zero))])
    IN  ArrayOf([i \in 1..Len(priceChange) |->
            JsDiv(One, JsAdd(One, JsMul(OrElse(priceChange[i], Zero), Num(100))))])

\* df[col] is truthy: present and not null
Truthful(df, col) == Has(df, col) /\ df[col] # NoSeries

\* blocks 3 to 5 push to neutralFeatures without consulting _canAddNeutral
PushNeutral(st, name, present, col) ==
    IF present
    THEN [st EXCEPT !.df = Put(@, name, col),
                    !.e.neutralFeatures = Append(@, name),
                    !.log.pushes = Append(@, <<"neutral", name, Len(st.e.neutralFeatures)>>)]
    ELSE st

\* block k of addDirectionalClarityFeatures
ClarityStep(st, k) ==
    CASE k = 1 -> ClarityBlock(st)
      [] k = 2 -> TrendBlock(st)
      [] k = 3 -> PushNeutral(st, "choppiness_index",
                              Has(st.df, "1h_close") /\ Truthful(st.df, "1h_atr"), choppiness_index(st.df))
      [] k = 4 -> PushNeutral(st, "range_compression",
                              HasAll(st.df, {"1h_high", "1h_low", "1h_close"}), range_compression(st.df))
      [] k = 5 -> PushNeutral(st, "sideways_movement", Has(st.df, "1h_close"), sideways_movement(st.df))

addDirectionalClarityFeatures(st) == RunSteps("addDirectionalClarityFeatures", st, 1, 5)

(***************************************************************************)
(* addMinimalContextFeatures                                               *)
(***************************************************************************)
\* a neutral block guarded by _canAddNeutral
TryNeutral(st, name, present, col) ==
    IF present /\ _canAddNeutral(st.e.neutralFeatures)
    THEN [st EXCEPT !.df = Put(@, name, col),
                    !.e.neutralFeatures = Append(@, name),
                    !.log.pushes = Append(@, <<"neutral", name, Len(st.e.neutralFeatures)>>)]
    ELSE st

\* fraction of the up-to-168 earlier valid ATR values below the current one
AtrPercentile(atr, i) ==
    IF i - 1 < 50 THEN Rat(1, 2)
    ELSE LET from   == IF i - 168 > 1 THEN i - 168 ELSE 1
             window == SelectSeq(SubSeq(atr, from, i - 1), IsValid)
             below  == SelectSeq(window, LAMBDA v : JsLt(v, OrElse(atr[i], Zero)))
         IN  IF Len(window) < 10 THEN Rat(1, 2) ELSE Rat(Len(below), Len(window))

vol_regime(df) ==
    LET atr == df["1h_atr"]
    IN  ArrayOf([i \in 1..Len(atr) |->
            LET p == AtrPercentile(atr, i)
            IN  IF JsLe(p, Rat(1, 4)) THEN Num(0)
                ELSE IF JsLe(p, Rat(1, 2)) THEN Num(1)
                ELSE IF JsLe(p, Rat(3, 4)) THEN Num(2)
                ELSE Num(3)])

volume_regime(df, volMa) ==
    LET volSurge == VolSurge(df, volMa)
    IN  ArrayOf([i \in 1..Len(volSurge) |->
            LET v == OrElse(volSurge[i], Zero)
            IN  IF JsLe(v, Rat(8, 10)) THEN Num(0)
                ELSE IF JsLe(v, Rat(12, 10)) THEN Num(1)
                ELSE IF JsLe(v, Num(2)) THEN Num(2)
                ELSE Num(3)])

range_expansion_ratio(df) ==
    LET currentRange == CurrentRange(df)
    IN  safeDivide(currentRange, rollingWindow(currentRange, 24, 12, "mean"), One)

price_ma_distance(df) ==
    LET close == df["1h_close"]
        ma20  == rollingWindow(close, 20, 10, "mean")
    IN  safeDivide(ArrayOf([i \in 1..Len(close) |-> JsAbs(JsSub(OrElse(close[i], Zero), OrElse(ma20[i], Zero)))]),
                   ma20, Zero)

\* block k of addMinimalContextFeatures; block 2 is the volMa lookup of the volume-regime block
ContextStep(st, k) ==
    CASE k = 1 -> TryNeutral(st, "vol_regime", Truthful(st.df, "1h_atr"), vol_regime(st.df))
      [] k = 2 -> _calculateVolumeMa(st, "1h", 24)
      [] k = 3 -> TryNeutral(st, "volume_regime", st.ret # NoSeries, volume_regime(st.df, st.ret))
      [] k = 4 -> TryNeutral(st, "range_expansion_ratio", HasAll(st.df, {"1h_high", "1h_low"}),
                             range_expansion_ratio(st.df))
      [] k = 5 -> TryNeutral(st, "price_ma_distance", Has(st.df, "1h_close"), price_ma_distance(st.df))

addMinimalContextFeatures(st) == RunSteps("addMinimalContextFeatures", st, 1, 5)

(***************************************************************************)
(* checkFeatureQuality                                                     *)
(***************************************************************************)
\* the order in which the caller inserts the raw columns into the Dataset
RawColumnOrder ==
    <<"1h_open", "1h_high", "1h_low", "1h_close", "1h_volume",
      "4h_open", "4h_high", "4h_low", "4h_close", "4h_volume",
      "1d_open", "1d_high", "1d_low", "1d_close", "1d_volume">>

\* Object.keys(df).find(k => Array.isArray(df[k])), NoKey when there is none; the keys
\* come in insertion order, and every Dataset here holds its raw columns first
NoKey == ""

FirstArrayKey(df) ==
    LET raw    == SelectSeq(RawColumnOrder, LAMBDA c : Has(df, c) /\ df[c] # NoSeries /\ df[c] # NotAnArray)
        others == {c \in DOMAIN df : df[c] # NoSeries /\ df[c] # NotAnArray}
    IN  IF raw # <<>> THEN raw[1]
        ELSE IF others # {} THEN CHOOSE c \in others : TRUE
        ELSE NoKey

\* "ok", or the reason the loop body records the feature as problematic
QualityVerdict(df, feat, totalRows) ==
    IF ~Has(df, feat) THEN "missing"
    ELSE LET series     == df[feat]
             nanCount   == Len(SelectSeq(series, LAMBDA v : v = Null \/ JsIsNaN(v)))
             uniqueVals == {series[i] : i \in {j \in 1..Len(series) : IsValid(series[j])}}
             zeroCount  == Len(SelectSeq(series, LAMBDA v : v = Zero))
         IN  IF JsGt(Rat(nanCount, totalRows), nanThreshold) THEN "NaN"
             ELSE IF Cardinality(uniqueVals) <= 1 THEN "constant"
             ELSE IF JsGt(Rat(zeroCount, totalRows), Rat(95, 100)) THEN "mostly zeros"
             ELSE "ok"

\* isFinite(series[j]) && series[j] !== null
Usable(v) == JsIsFinite(v) /\ v # Null

\* the replacement of a non-finite value at position i: nearest earlier usable value,
\* else nearest later one, else 0
Repair(series, i) ==
    LET before == {j \in 1..(i - 1) : Usable(series[j])}
        after  == {j \in (i + 1)..Len(series) : Usable(series[j])}
    IN  IF before # {} THEN series[CHOOSE j \in before : \A k \in before : k <= j]
        ELSE IF after # {} THEN series[CHOOSE j \in after : \A k \in after : j <= k]
        ELSE Zero

\* the "fix infinite values" step on one retained series
FixInfinite(series) ==
    IF \E i \in 1..Len(series) : ~JsIsFinite(series[i]) /\ series[i] # Null
    THEN ArrayOf([i \in 1..Len(series) |-> IF ~JsIsFinite(series[i]) THEN Repair(series, i) ELSE series[i]])
    ELSE series

\* iteration k of the loop over featureNames; st.ret holds totalRows and the
\* problematic names collected so far
QualityIteration(st, k) ==
    IF QualityVerdict(st.df, st.e.featureNames[k], st.ret.totalRows) = "ok"
    THEN [st EXCEPT !.df = Put(@, st.e.featureNames[k], FixInfinite(st.df[st.e.featureNames[k]]))]
    ELSE [st EXCEPT !.ret.problematic = Append(@, st.e.featureNames[k])]

\* list.filter(f => !names.includes(f))
Without(list, names) == SelectSeq(list, LAMBDA f : \A k \in 1..Len(names) : names[k] # f)

\* filters that leave featureNames as it was
DropProblematic_listsOnly(looped) ==
    [looped EXCEPT !.e.bullishFeatures            = Without(@, looped.ret.problematic),
                   !.e.bearishFeatures            = Without(@, looped.ret.problematic),
                   !.e.neutralFeatures            = Without(@, looped.ret.problematic),
                   !.e.directionalClarityFeatures = Without(@, looped.ret.problematic)]

\* the filters after the loop, on the state the loop left
DropProblematic(looped) ==
    [looped EXCEPT !.e.featureNames               = Without(@, looped.ret.problematic),
                   !.e.bullishFeatures            = Without(@, looped.ret.problematic),
                   !.e.bearishFeatures            = Without(@, looped.ret.problematic),
                   !.e.neutralFeatures            = Without(@, looped.ret.problematic),
                   !.e.directionalClarityFeatures = Without(@, looped.ret.problematic)]

checkFeatureQuality(st) ==
    DropProblematic(
        RunSteps("checkFeatureQuality",
                 [st EXCEPT !.ret = [totalRows |-> Len(st.df[FirstArrayKey(st.df)]), problematic |-> <<>>]],
                 1, Len(st.e.featureNames)))

(***************************************************************************)
(* engineerFeatures                                                        *)
(***************************************************************************)
\* the branch of _validateData's loop body a required field takes, "none" when it is accepted
FieldFault(e, df, field) ==
    IF ~Has(df, field) \/ df[field] = NoSeries THEN "Missing required field"
    ELSE IF df[field] = NotAnArray THEN "is not an array"
    ELSE IF Len(df[field]) < e.minDataPoints THEN "has insufficient data"
    ELSE "none"

requiredFields == <<"1h_close", "1h_volume">>

\* a _validateData that reports the first faulty field only
ValidationErrors_firstOnly(e, df) ==
    LET errors == SelectSeq([k \in 1..Len(requiredFields) |-> <<requiredFields[k], FieldFault(e, df, requiredFields[k])>>],
                            LAMBDA err : err[2] # "none")
    IN  IF errors = <<>> THEN <<>> ELSE <<errors[1]>>

\* _validateData(df, ['1h_close', '1h_volume']): the errors it collects, each <<field, text>>;
\* the message thrown is their texts joined
ValidationErrors(e, df) ==
    SelectSeq([k \in 1..Len(requiredFields) |-> <<requiredFields[k], FieldFault(e, df, requiredFields[k])>>],
              LAMBDA err : err[2] # "none")

\* [...new Set(list)]: first occurrences, in order
Dedup(list) ==
    LET firsts == {i \in 1..Len(list) : \A j \in 1..(i - 1) : list[j] # list[i]}
    IN  ArrayOf([k \in 1..Cardinality(firsts) |->
            list[CHOOSE i \in firsts : Cardinality({j \in firsts : j < i}) = k - 1]])

\* Step 6
CollectFeatureNames(st) ==
    [st EXCEPT !.e.featureNames =
        Dedup(st.e.bullishFeatures \o st.e.bearishFeatures \o st.e.neutralFeatures \o st.e.directionalClarityFeatures)]

\* Step 7, first half: balance, then drop the removed columns and names
BalanceStep(st) ==
    LET balanced == enforceDirectionalBalance(st)
        removed  == balanced.ret
    IN  [balanced EXCEPT !.df = Delete(@, {removed[k] : k \in 1..Len(removed)}),
                         !.e.featureNames = Without(@, removed)]

\* Steps 1 to 7 of engineerFeatures
PipelineStep(st, k) ==
    CASE k = 1 -> [st EXCEPT !.df = _addBasicFeatures(@)]
      [] k = 2 -> AtrStep(st, "1h")
      [] k = 3 -> AtrStep(st, "4h")
      [] k = 4 -> AtrStep(st, "1d")
      [] k = 5 -> addDirectionalFeatures(st)
      [] k = 6 -> addDirectionalClarityFeatures(st)
      [] k = 7 -> addMinimalContextFeatures(st)
      [] k = 8 -> BalanceStep(CollectFeatureNames(st))
      [] k = 9 -> [checkFeatureQuality(st) EXCEPT !.ret = <<>>]

\* statement k of the named function body
Statement(body, st, k) ==
    CASE body = "engineerFeatures"              -> PipelineStep(st, k)
      [] body = "addDirectionalFeatures"        -> DirectionalBlock(st, k)
      [] body = "addDirectionalClarityFeatures" -> ClarityStep(st, k)
      [] body = "addMinimalContextFeatures"     -> ContextStep(st, k)
      [] body = "checkFeatureQuality"           -> QualityIteration(st, k)

\* the rest of a sequence after its first part: nothing when that part threw
Continue(body, first, lo, hi) == IF first.thrown THEN first ELSE RunSteps(body, first, lo, hi)

\* the range lo..hi is split in halves, and the first half is completed before the second
RunSteps(body, st, lo, hi) ==
    IF lo > hi THEN st
    ELSE IF lo = hi THEN Statement(body, st, lo)
    ELSE Continue(body, RunSteps(body, st, lo, (lo + hi) \div 2), (lo + hi) \div 2 + 1, hi)

\* the call engineerFeatures(df) on engineer e: the state when it returns or throws
engineerFeatures(e, df) ==
    LET st0 == [e |-> clearCache(e), df |-> df, log |-> EmptyLog, ret |-> <<>>, thrown |-> FALSE]
    IN  IF ValidationErrors(e, df) # <<>>
        THEN [st0 EXCEPT !.thrown = TRUE, !.ret = ValidationErrors(e, df)]
        ELSE RunSteps("engineerFeatures", st0, 1, 9)

(***************************************************************************)
(* getBalanceReport                                                        *)
(***************************************************************************)
NoReport == [total_features |-> -1]

\* the identifiers bound where the body of getBalanceReport is evaluated: its local
\* `total` and the module's bindings; bullCount and bearCount are locals of engineerFeatures
ScopeOfGetBalanceReport == {"total", "CryptoFeatureEngineer", "module"}

\* x / y * 100 when total > 0, else 0
Percent(count, total) == IF total > 0 THEN JsMul(Rat(count, total), Num(100)) ELSE Num(0)

\* getBalanceReport(): the object literal is evaluated property by property, and reading an
\* identifier that is not bound throws a ReferenceError
getBalanceReport(e) ==
    IF ~({"bullCount", "bearCount"} \subseteq ScopeOfGetBalanceReport)
    THEN [thrown |-> TRUE, message |-> <<<<"bullCount", "ReferenceError: bullCount is not defined">>>>,
          report |-> NoReport]
    ELSE [thrown |-> FALSE, message |-> <<>>,
          report |-> [total_features |-> Len(e.featureNames),
                      bullish_count  |-> Len(e.bullishFeatures),
                      bearish_count  |-> Len(e.bearishFeatures),
                      neutral_count  |-> Len(e.neutralFeatures),
                      clarity_count  |-> Len(e.directionalClarityFeatures),
                      bullish_pct    |-> Percent(Len(e.bullishFeatures), Len(e.featureNames)),
                      bearish_pct    |-> Percent(Len(e.bearishFeatures), Len(e.featureNames)),
                      is_balanced    |-> Len(e.bullishFeatures) = Len(e.bearishFeatures),
                      balance_ratio  |-> IF Len(e.bearishFeatures) > 0
                                         THEN Rat(Len(e.bullishFeatures), Len(e.bearishFeatures)) ELSE Num(0)]]

\* calls: <<operation, dataset id>> of every call made so far; thrown: whether the last one threw
\* message: the errors the last call threw with, <<>> when it returned;
\* report: what the last call returned when it was getBalanceReport
NoRun        == [thrown |-> FALSE, calls |-> <<>>, message |-> <<>>, report |-> NoReport]
\* calls: the extractFeatureVector calls made so far; outcome: what the last one produced
NoExtraction == [calls |-> 0, outcome |-> [status |-> "none"]]
\* fn: the utility called, "none" before any call; done: whether it has returned
NoProbe      == [fn |-> "none", done |-> FALSE]

(***************************************************************************)
(* extractFeatureVector (predict-crypto-handler.js)                        *)
(***************************************************************************)
\* parseFloat(value): the value is converted to a string and the string is parsed;
\* "null", "undefined" and "NaN" parse to NaN, "Infinity" and a number's digits to the number
JsParseFloat(v) == IF v = Null \/ v = Undef THEN NaN ELSE v

\* the entry the loop body pushes for one feature name, without its validation
FeatureEntry_unvalidated(engineeredData, featureName, lastRowIndex) ==
    IF ~Has(engineeredData, featureName) THEN Zero
    ELSE JsParseFloat(JsAt(engineeredData[featureName], lastRowIndex))

\* the entry the loop body pushes for one feature name
FeatureEntry(engineeredData, featureName, lastRowIndex) ==
    IF ~Has(engineeredData, featureName) THEN Zero
    ELSE LET value == JsAt(engineeredData[featureName], lastRowIndex)
         IN  IF value = Null \/ value = Undef THEN Zero
             ELSE IF ~JsIsFinite(value) THEN Zero
             ELSE JsParseFloat(value)

\* a call that consumes its feature list (featureList.shift() in place of featureList[i])
extractFeatureVector_draining(engineeredData, featureList) ==
    [status |-> "ok", features |-> <<>>, engineeredData |-> engineeredData, featureList |-> <<>>]

\* the outcome of the call, with its two arguments as the call leaves them
extractFeatureVector(engineeredData, featureList) ==
    LET firstKey     == FirstArrayKey(engineeredData)
        lastRowIndex == Len(engineeredData[firstKey]) - 1
        left         == [engineeredData |-> engineeredData, featureList |-> featureList]
    IN  IF firstKey = NoKey
        THEN left @@ Thrown("No array columns in engineered data")
        ELSE IF lastRowIndex < 0
        THEN left @@ Thrown("No data rows available")
        ELSE IF \E j \in 1..Len(featureList) :
                   Has(engineeredData, featureList[j]) /\ engineeredData[featureList[j]] = NoSeries
        THEN left @@ Thrown("Cannot read properties of null")
        ELSE left @@ [status   |-> "ok",
                      features |-> ArrayOf([j \in 1..Len(featureList) |->
                                      FeatureEntry(engineeredData, featureList[j], lastRowIndex)])]

(***************************************************************************)
(* The ensemble as a state machine: a list of triples is given, and either *)
(* implementation is applied to it.                                        *)
(***************************************************************************)
MaxModels == 2
ProbScale == 20
LowUnits  == {0, 1, 2}

\* every triple over LowUnits/ProbScale, and the triples of the documented examples
Triples ==
    {<<Rat(a, ProbScale), Rat(b, ProbScale), Rat(c, ProbScale)>> : a \in LowUnits, b \in LowUnits, c \in LowUnits}
    \cup {<<Rat(1, 10), Rat(1, 10), Rat(8, 10)>>, <<Rat(9, 10), Rat(1, 20), Rat(1, 20)>>}

PredictionLists == UNION {[1..n -> Triples] : n \in 0..MaxModels}

NoInference == [fn |-> "none"]
NoRequest   == [handler |-> "none"]
NoLoader    == [modelsDir |-> "none"]
NoLimiter   == [dailyLimit |-> 0]

\* the parts of the state a specification does not exercise
IdleEnsemble == predictions = <<>> /\ decision = NoDecision
IdlePipeline == engineer = NewEngineer([minDataPoints |-> 0]) /\ data = <<>> /\ callLog = EmptyLog /\ run = NoRun
IdleExtract  == inputData = <<>> /\ inputList = <<>> /\ extraction = NoExtraction
IdleUtility  == probe = NoProbe
IdleService  == inference = NoInference /\ request = NoRequest /\ loader = NoLoader /\ limiter = NoLimiter

InitEnsemble ==
    /\ predictions \in PredictionLists
    /\ decision = NoDecision
    /\ IdlePipeline
    /\ IdleExtract
    /\ IdleUtility
    /\ IdleService

CallEnsembleCrypto ==
    /\ decision' = [fn |-> "ensembleCryptoPredictions", input |-> predictions,
                    result |-> ensembleCryptoPredictions(predictions)]
    /\ UNCHANGED <<predictions, pipelineVars, extractVars, utilityVars, serviceVars>>

CallEnsemblePredictions ==
    /\ decision' = [fn |-> "ensemblePredictions", input |-> predictions,
                    result |-> ensemblePredictions(predictions)]
    /\ UNCHANGED <<predictions, pipelineVars, extractVars, utilityVars, serviceVars>>

NextEnsemble == CallEnsembleCrypto \/ CallEnsemblePredictions

SpecEnsemble == InitEnsemble /\ [][NextEnsemble]_vars

(***************************************************************************)
(* The feature pipeline as a state machine: one engineer instance, built   *)
(* with one of Configs, receives up to MaxCalls calls, each on a fresh     *)
(* copy of one of the Datasets.                                            *)
(***************************************************************************)
Rows     == 14      \* samples per column of a Dataset
MinRows  == 12      \* the minDataPoints option of the non-default configuration
MaxCalls == 4       \* calls made on one engineer instance

Configs == {[minDataPoints |-> 0], [minDataPoints |-> MinRows]}

Larger(a, b)  == IF a > b THEN a ELSE b
Smaller(a, b) == IF a < b THEN a ELSE b

\* the series F(1), ..., F(Rows)
Series(F(_)) == ArrayOf([i \in 1..Rows |-> Num(F(i))])

\* Dataset 1: a ranging market on all three timeframes
RangingClose(i)  == 20 + ((i * 3) % 7)
RangingOpen(i)   == 20 + (((i - 1) * 3) % 7)
RangingHigh(i)   == Larger(RangingOpen(i), RangingClose(i)) + 1
RangingLow(i)    == Smaller(RangingOpen(i), RangingClose(i)) - 1
RangingVolume(i) == 10 + (i % 3) * 5
SlowClose(i)     == 20 + ((i * 5) % 11)
SlowHigh(i)      == SlowClose(i) + 2
SlowLow(i)       == SlowClose(i) - 2

RangingDataset ==
    [1h_open |-> Series(RangingOpen), 1h_high |-> Series(RangingHigh), 1h_low |-> Series(RangingLow),
     1h_close |-> Series(RangingClose), 1h_volume |-> Series(RangingVolume),
     4h_open |-> Series(SlowClose), 4h_high |-> Series(SlowHigh), 4h_low |-> Series(SlowLow),
     4h_close |-> Series(SlowClose), 4h_volume |-> Series(RangingVolume),
     1d_open |-> Series(SlowClose), 1d_high |-> Series(SlowHigh), 1d_low |-> Series(SlowLow),
     1d_close |-> Series(RangingOpen), 1d_volume |-> Series(RangingVolume)]

\* Dataset 2: a rising market, 1h bars only (the 4h and 1d columns are absent)
RisingClose(i)  == 20 + 2 * i + (i % 2)
RisingOpen(i)   == 19 + 2 * i
RisingHigh(i)   == RisingClose(i) + 1
RisingLow(i)    == RisingOpen(i) - 1
RisingVolume(i) == 8 + (i % 4) * 4

RisingDataset ==
    [1h_open |-> Series(RisingOpen), 1h_high |-> Series(RisingHigh), 1h_low |-> Series(RisingLow),
     1h_close |-> Series(RisingClose), 1h_volume |-> Series(RisingVolume)]

DatasetIds == {1, 2}

\* Datasets 3 to 5: the ranging market with faulty required columns;
\* Datasets 6 and 7: the ranging market without one 4h column; Dataset 8: with a string
\* in 4h_low; Dataset 9: without 1h_high
Dataset(d) ==
    CASE d = 1 -> RangingDataset
      [] d = 2 -> RisingDataset
      [] d = 3 -> [c \in DOMAIN RangingDataset \ {"1h_volume"} |-> RangingDataset[c]]
      [] d = 4 -> [RangingDataset EXCEPT !["1h_close"] = NotAnArray]
      [] d = 5 -> [RangingDataset EXCEPT !["1h_close"] = SubSeq(@, 1, MinRows - 1), !["1h_volume"] = NoSeries]
      [] d = 6 -> [c \in DOMAIN RangingDataset \ {"4h_low"} |-> RangingDataset[c]]
      [] d = 7 -> [c \in DOMAIN RangingDataset \ {"4h_high"} |-> RangingDataset[c]]
      [] d = 8 -> [RangingDataset EXCEPT !["4h_low"] = NotAnArray]
      [] d = 9 -> [c \in DOMAIN RangingDataset \ {"1h_high"} |-> RangingDataset[c]]

\* the Datasets the validation is exercised on
ValidateIds == {1, 3, 4, 5}

\* the Datasets addDirectionalFeatures is called on directly
DirectIds == {1}

InitPipeline ==
    /\ engineer \in {NewEngineer(config) : config \in Configs}
    /\ data = <<>>
    /\ callLog = EmptyLog
    /\ run = NoRun

Init ==
    /\ InitPipeline
    /\ IdleEnsemble
    /\ IdleExtract
    /\ IdleUtility
    /\ IdleService

\* the instance, the Dataset and the log as a call left them in st
Returned(st, op, d) ==
    /\ engineer' = st.e
    /\ data' = st.df
    /\ callLog' = st.log
    /\ run' = [thrown |-> st.thrown, calls |-> Append(run.calls, <<op, d>>),
               message |-> IF st.thrown THEN st.ret ELSE <<>>, report |-> NoReport]

\* engineer.engineerFeatures(df) on a fresh copy of Dataset d
EngineerFeatures(d) ==
    /\ Len(run.calls) < MaxCalls
    /\ Returned(engineerFeatures(engineer, Dataset(d)), "engineerFeatures", d)
    /\ UNCHANGED <<ensembleVars, extractVars, utilityVars, serviceVars>>

\* engineer.addDirectionalFeatures(df), called directly on a fresh copy of Dataset d
AddDirectionalFeatures(d) ==
    /\ Len(run.calls) < MaxCalls
    /\ Returned(addDirectionalFeatures([e |-> engineer, df |-> Dataset(d), log |-> EmptyLog,
                                        ret |-> <<>>, thrown |-> FALSE]),
                "addDirectionalFeatures", d)
    /\ UNCHANGED <<ensembleVars, extractVars, utilityVars, serviceVars>>

\* what a getBalanceReport call left in r
Reported(r) ==
    run' = [thrown |-> r.thrown, calls |-> Append(run.calls, <<"getBalanceReport", 0>>),
            message |-> r.message, report |-> r.report]

\* engineer.getBalanceReport()
GetBalanceReport ==
    /\ Len(run.calls) < MaxCalls
    /\ Reported(getBalanceReport(engineer))
    /\ UNCHANGED <<engineer, data, callLog, ensembleVars, extractVars, utilityVars, serviceVars>>

Next ==
    \/ \E d \in DatasetIds : EngineerFeatures(d)
    \/ \E d \in DirectIds : AddDirectionalFeatures(d)
    \/ GetBalanceReport

Spec == Init /\ [][Next]_vars

\* the same instance receiving engineerFeatures calls on sound and on faulty Datasets
NextValidate == \E d \in ValidateIds : EngineerFeatures(d)

SpecValidate == Init /\ [][NextValidate]_vars

\* the same instance receiving engineerFeatures calls on Datasets with optional columns
\* missing or unusable
IsolationIds == {1, 2, 6, 8, 9}

MaxIsolationCalls == 3

NextIsolation == \E d \in IsolationIds : Len(run.calls) < MaxIsolationCalls /\ EngineerFeatures(d)

SpecIsolation == Init /\ [][NextIsolation]_vars

(***************************************************************************)
(* The Balance & Quality Enforcer as a state machine: the same instance    *)
(* receives engineerFeatures and addDirectionalFeatures calls on Datasets  *)
(* whose bullish and bearish candidates differ in number, and direct calls *)
(* of enforceDirectionalBalance and of checkFeatureQuality, the latter on  *)
(* the Dataset the previous call left, one signal column of it possibly    *)
(* rewritten by the caller.                                                *)
(***************************************************************************)
\* the Datasets whose bullish and bearish candidates differ in number
BalanceIds == {6, 7}

\* what the caller does to the column of the first signal before checkFeatureQuality:
\* 0 nothing, 1 a constant with one Infinity, 2 one null, 3 a leading NaN, 4 a trailing
\* -Infinity, 5 only +-Infinity, 6 the column deleted, 7 a constant
QualityKinds == 0..7

Ramp(n) == ArrayOf([i \in 1..n |-> Num(1 + (i % 3))])

CraftedSeries(kind, n) ==
    CASE kind = 1 -> ArrayOf([i \in 1..n |-> IF i = 2 THEN PInf ELSE Num(1)])
      [] kind = 2 -> [Ramp(n) EXCEPT ![3] = Null]
      [] kind = 3 -> [Ramp(n) EXCEPT ![1] = NaN]
      [] kind = 4 -> [Ramp(n) EXCEPT ![n] = NInf]
      [] kind = 5 -> ArrayOf([i \in 1..n |-> IF i % 2 = 0 THEN PInf ELSE NInf])
      [] kind = 7 -> ArrayOf([i \in 1..n |-> Num(1)])

\* the Dataset df with the column of the first of names rewritten
Crafted(df, names, kind) ==
    IF kind = 0 \/ names = <<>> \/ FirstArrayKey(df) = NoKey THEN df
    ELSE IF kind = 6 THEN Delete(df, {names[1]})
    ELSE Put(df, names[1], CraftedSeries(kind, Len(df[FirstArrayKey(df)])))

\* engineer.checkFeatureQuality(df): with no array column in df the length of undefined
\* is read and a TypeError is thrown
CallCheckFeatureQuality(e, df) ==
    LET st0 == [e |-> e, df |-> df, log |-> EmptyLog, ret |-> <<>>, thrown |-> FALSE]
    IN  IF FirstArrayKey(df) = NoKey
        THEN [st0 EXCEPT !.thrown = TRUE, !.ret = <<<<"totalRows", "TypeError: Cannot read properties of undefined">>>>]
        ELSE [checkFeatureQuality(st0) EXCEPT !.ret = <<>>]

\* engineer.checkFeatureQuality(df) on the Dataset the previous call left
CheckFeatureQuality(kind) ==
    /\ Len(run.calls) < MaxCalls
    /\ Returned(CallCheckFeatureQuality(engineer, Crafted(data, engineer.featureNames, kind)),
                "checkFeatureQuality", kind)
    /\ UNCHANGED <<ensembleVars, extractVars, utilityVars, serviceVars>>

\* engineer.enforceDirectionalBalance()
EnforceDirectionalBalance ==
    /\ Len(run.calls) < MaxCalls
    /\ Returned([enforceDirectionalBalance([e |-> engineer, df |-> data, log |-> EmptyLog,
                                            ret |-> <<>>, thrown |-> FALSE]) EXCEPT !.ret = <<>>],
                "enforceDirectionalBalance", 0)
    /\ UNCHANGED <<ensembleVars, extractVars, utilityVars, serviceVars>>

MaxEnforcerCalls == 3       \* calls made on the instance whose enforcer is exercised

InitEnforcer == Init /\ engineer.minDataPoints = MinRows

NextEnforcer ==
    \/ \E d \in BalanceIds : Len(run.calls) < MaxEnforcerCalls /\ EngineerFeatures(d)
    \/ Len(run.calls) < MaxEnforcerCalls /\ AddDirectionalFeatures(6)
    \/ Len(run.calls) < MaxEnforcerCalls /\ EnforceDirectionalBalance
    \/ \E kind \in QualityKinds : Len(run.calls) < MaxEnforcerCalls /\ CheckFeatureQuality(kind)

SpecEnforcer == InitEnforcer /\ [][NextEnforcer]_vars

\* the balance phase alone, on an instance of either configuration
NextBalance ==
    \/ \E d \in BalanceIds : Len(run.calls) < MaxEnforcerCalls /\ EngineerFeatures(d)
    \/ Len(run.calls) < MaxEnforcerCalls /\ AddDirectionalFeatures(6)
    \/ Len(run.calls) < MaxEnforcerCalls /\ EnforceDirectionalBalance

SpecBalance == Init /\ [][NextBalance]_vars

(***************************************************************************)
(* The extractor as a state machine: a Dataset and a feature-name list are *)
(* given, and extractFeatureVector is called on them up to MaxExtracts     *)
(* times.                                                                  *)
(***************************************************************************)
MaxExtracts == 2

\* what engineerFeatures leaves for the two market Datasets (engineer built with MinRows)
EngineeredRanging == engineerFeatures(NewEngineer([minDataPoints |-> MinRows]), RangingDataset)
EngineeredRising  == engineerFeatures(NewEngineer([minDataPoints |-> MinRows]), RisingDataset)

\* a two-row Dataset whose last row holds one value of every kind, and a one-row column
ProbeDataset ==
    [1h_close   |-> <<Num(1), Num(2)>>,
     finite     |-> <<Num(3), Rat(7, 2)>>,
     negative   |-> <<Num(3), Rat(-5, 4)>>,
     nullLast   |-> <<Num(1), Null>>,
     nanLast    |-> <<Num(1), NaN>>,
     infLast    |-> <<Num(1), PInf>>,
     negInfLast |-> <<Num(1), NInf>>,
     short      |-> <<Num(9)>>]

\* a Dataset with a column that is null instead of an array
HoledDataset == [1h_close |-> <<Num(1), Num(2)>>, gone |-> NoSeries]

ExtractDatasets ==
    {EngineeredRanging.df, EngineeredRising.df, ProbeDataset, HoledDataset,
     <<>>,                       \* no columns at all
     [1h_close |-> <<>>]}        \* a column without rows

FeatureLists ==
    {<<>>,
     EngineeredRanging.e.featureNames,
     EngineeredRising.e.featureNames,
     <<"finite", "nullLast", "nanLast", "infLast", "negInfLast", "short", "absent", "negative">>,
     <<"finite">>,
     <<"absent", "finite", "absent", "finite">>,
     <<"gone">>,
     <<"1h_close", "negative">>,
     <<"nanLast", "1h_close">>}

InitExtract ==
    /\ inputData \in ExtractDatasets
    /\ inputList \in FeatureLists
    /\ extraction = NoExtraction
    /\ IdleEnsemble
    /\ IdlePipeline
    /\ IdleUtility
    /\ IdleService

\* the two arguments and the outcome as the call left them in r
Extracted(r) ==
    /\ inputData' = r.engineeredData
    /\ inputList' = r.featureList
    /\ extraction' = [calls   |-> extraction.calls + 1,
                      outcome |-> [f \in DOMAIN r \ {"engineeredData", "featureList"} |-> r[f]]]

\* extractFeatureVector(engineeredData, featureList)
Extract ==
    /\ extraction.calls < MaxExtracts
    /\ Extracted(extractFeatureVector(inputData, inputList))
    /\ UNCHANGED <<ensembleVars, pipelineVars, utilityVars, serviceVars>>

NextExtract == Extract

SpecExtract == InitExtract /\ [][NextExtract]_vars

(***************************************************************************)
(* The utilities as a state machine: the arguments of one call are given,  *)
(* and the call is made.                                                   *)
(***************************************************************************)
\* the signals addDirectionalFeatures builds from shift(series, k) with k >= 1
ShiftSignals ==
    {"volume_on_breakout_up", "volume_on_breakdown", "higher_highs", "lower_lows",
     "bullish_momentum_1h", "bullish_momentum_4h", "bearish_momentum_1h", "bearish_momentum_4h"}

\* the raw columns those signals read, and the values a later sample is replaced by
SignalInputs == {"1h_high", "1h_low", "1h_volume", "1h_close", "4h_close"}
LaterSamples == {Null, Zero, Num(1000)}

\* Dataset df with sample j of column c replaced by v
WithSample(df, c, j, v) == IF Has(df, c) THEN [df EXCEPT ![c] = [@ EXCEPT ![j] = v]] ELSE df

\* the shift-built columns addDirectionalFeatures leaves in df, on a new engineer
DirectionalSignals(df) ==
    LET st == addDirectionalFeatures([e |-> NewEngineer([minDataPoints |-> MinRows]), df |-> df,
                                      log |-> EmptyLog, ret |-> <<>>, thrown |-> FALSE])
    IN  [c \in ShiftSignals \cap DOMAIN st.df |-> st.df[c]]

\* two Datasets that agree before sample `position` and differ there
SignalProbes ==
    {[fn |-> "addDirectionalFeatures", done |-> FALSE, dataset |-> d, column |-> c,
      position |-> j, sample |-> v, result |-> <<>>] :
        d \in DatasetIds, c \in SignalInputs, j \in 2..Rows, v \in LaterSamples}

\* addDirectionalFeatures on the Dataset ("base") and on the Dataset with the later sample replaced ("changed")
CallDirectionalSignals ==
    /\ probe.fn = "addDirectionalFeatures"
    /\ ~probe.done
    /\ probe' = [probe EXCEPT !.done = TRUE,
                              !.result = [k \in {"base", "changed"} |->
                                  DirectionalSignals(IF k = "base" THEN Dataset(probe.dataset)
                                                     ELSE WithSample(Dataset(probe.dataset), probe.column,
                                                                     probe.position, probe.sample))]]
    /\ UNCHANGED <<ensembleVars, pipelineVars, extractVars, serviceVars>>

\* the arrays shift is called on: every array of up to MaxShiftLen samples that are
\* 1 or null, arrays holding NaN and undefined, and the array of the documented examples
MaxShiftLen == 3
ShiftArrays ==
    UNION {[1..n -> {Num(1), Null}] : n \in 0..MaxShiftLen}
    \cup {<<Num(1), Num(2), Num(3), Num(4)>>, <<NaN, Num(5), Undef>>}

ShiftNames == {"CryptoFeatureEngineer.shift", "ConservativeFeatureEngineer.shift"}

\* periods runs over every integer from below -length to above length
ShiftProbes ==
    {[fn |-> f, done |-> FALSE, arr |-> a, periods |-> k, result |-> <<>>] :
        f \in ShiftNames, a \in ShiftArrays, k \in (0 - MaxShiftLen - 2)..(MaxShiftLen + 2)}

\* CryptoFeatureEngineer.shift(arr, periods); arr is the argument as the call leaves it
CallShift ==
    /\ probe.fn = "CryptoFeatureEngineer.shift"
    /\ ~probe.done
    /\ probe' = [probe EXCEPT !.done = TRUE, !.result = shift(probe.arr, probe.periods)]
    /\ UNCHANGED <<ensembleVars, pipelineVars, extractVars, serviceVars>>

\* ConservativeFeatureEngineer.shift(arr, periods)
CallConservativeShift ==
    /\ probe.fn = "ConservativeFeatureEngineer.shift"
    /\ ~probe.done
    /\ probe' = [probe EXCEPT !.done = TRUE, !.result = ConservativeFeatureEngineer_shift(probe.arr, probe.periods)]
    /\ UNCHANGED <<ensembleVars, pipelineVars, extractVars, serviceVars>>

\* the arguments safeDivide is called on: scalars, and arrays of up to MaxDivideLen of them
MaxDivideLen == 2
Numerators   == {Num(10), Null, NaN}
Denominators == {Num(0), Null, Undef, NaN, Num(4), PInf}
FillValues   == {Undef, Num(-1)}        \* omitted, and a configured fill value

ArraysOf(scalars) == UNION {[1..k -> scalars] : k \in 0..MaxDivideLen}

\* the calls of one array/scalar combination
DivideProbes(na, da) ==
    {[fn |-> "safeDivide", done |-> FALSE, numeratorIsArray |-> na, denominatorIsArray |-> da,
      numerator |-> n, denominator |-> d, fillValue |-> f, result |-> <<>>] :
        n \in IF na THEN ArraysOf(Numerators) ELSE Numerators,
        d \in IF da THEN ArraysOf(Denominators) ELSE Denominators,
        f \in FillValues}

\* CryptoFeatureEngineer.safeDivide(numerator, denominator, fillValue): the four branches
CallSafeDivide ==
    /\ probe.fn = "safeDivide"
    /\ ~probe.done
    /\ probe' = [probe EXCEPT !.done = TRUE,
                              !.result =
           IF probe.numeratorIsArray /\ probe.denominatorIsArray
           THEN safeDivide(probe.numerator, probe.denominator, FillValueOr0(probe.fillValue))
           ELSE IF probe.numeratorIsArray
           THEN safeDivide_arrayByScalar(probe.numerator, probe.denominator, FillValueOr0(probe.fillValue))
           ELSE IF probe.denominatorIsArray
           THEN safeDivide_scalarByArray(probe.numerator, probe.denominator, FillValueOr0(probe.fillValue))
           ELSE safeDivide_scalars(probe.numerator, probe.denominator, FillValueOr0(probe.fillValue))]
    /\ UNCHANGED <<ensembleVars, pipelineVars, extractVars, serviceVars>>

\* the series the forex features are built on: bars numbered 1..n with some samples
\* null, for a length below every window, lengths between the windows, and MaxSeriesLen
MaxSeriesLen  == 21
SeriesLengths == {1, 5, 12, MaxSeriesLen}
NullPositions == {{}, {1}, {1, 2}, {3}, {2, 5}}

SeriesWithNulls(n, nulls) == ArrayOf([i \in 1..n |-> IF i \in nulls THEN Null ELSE Num(((i * 3) % 7) - 2)])

ForexSeries == {SeriesWithNulls(n, nulls) : n \in SeriesLengths, nulls \in NullPositions}

\* window is the period of sma_N and the window of volatility_N; volume_ma has the fixed window 20
ForexProbes ==
    {[fn |-> f, done |-> FALSE, series |-> a, window |-> w, result |-> <<>>] :
        f \in {"addConservativeMovingAverages", "addRealizedVolatility"}, a \in ForexSeries, w \in {3, 10, 20}}
    \cup {[fn |-> "addVolumeFeatures", done |-> FALSE, series |-> a, window |-> 20, result |-> <<>>] :
        a \in ForexSeries}

\* addConservativeMovingAverages(df, prefix, [window]) with series as <prefix>_close:
\* the column <prefix>_sma_<window> it leaves in df
CallMovingAverages ==
    /\ probe.fn = "addConservativeMovingAverages"
    /\ ~probe.done
    /\ probe' = [probe EXCEPT !.done = TRUE, !.result = sma(probe.series, probe.window)]
    /\ UNCHANGED <<ensembleVars, pipelineVars, extractVars, serviceVars>>

\* addRealizedVolatility(df, prefix, [window]) with series as the <prefix>_returns column
\* already in df: the column <prefix>_volatility_<window> it leaves in df
CallRealizedVolatility ==
    /\ probe.fn = "addRealizedVolatility"
    /\ ~probe.done
    /\ probe' = [probe EXCEPT !.done = TRUE, !.result = volatility(probe.series, probe.window)]
    /\ UNCHANGED <<ensembleVars, pipelineVars, extractVars, serviceVars>>

\* addVolumeFeatures(df, prefix) with series as <prefix>_volume: the column <prefix>_volume_ma
CallVolumeFeatures ==
    /\ probe.fn = "addVolumeFeatures"
    /\ ~probe.done
    /\ probe' = [probe EXCEPT !.done = TRUE, !.result = volume_ma(probe.series)]
    /\ UNCHANGED <<ensembleVars, pipelineVars, extractVars, serviceVars>>

MaxWindowLen == 3
WindowSamples == {Num(2), Num(5), Null, NaN}
WindowArrays == UNION {[1..n -> WindowSamples] : n \in 0..MaxWindowLen}
WindowOperations == {"mean", "sum", "max", "min"}

\* minPeriods 0 stands for an omitted, null or 0 argument
WindowProbes ==
    {[fn |-> f, done |-> FALSE, arr |-> a, window |-> w, minPeriods |-> least, operation |-> op, result |-> <<>>] :
        f \in {"rollingWindow"}, a \in WindowArrays, w \in 1..MaxWindowLen, least \in 0..2, op \in WindowOperations}

\* CryptoFeatureEngineer.rollingWindow(arr, window, minPeriods, operation)
CallRollingWindow ==
    /\ probe.fn = "rollingWindow"
    /\ ~probe.done
    /\ probe' = [probe EXCEPT !.done = TRUE,
                              !.result = rollingWindow(probe.arr, probe.window, probe.minPeriods, probe.operation)]
    /\ UNCHANGED <<ensembleVars, pipelineVars, extractVars, serviceVars>>

\* what engineerFeatures, on a new engineer, leaves in featureNames and in the columns they name
EngineeredSignals(df) ==
    LET st == engineerFeatures(NewEngineer([minDataPoints |-> MinRows]), df)
    IN  [thrown  |-> st.thrown,
         names   |-> st.e.featureNames,
         columns |-> [c \in {st.e.featureNames[k] : k \in 1..Len(st.e.featureNames)} \cap DOMAIN st.df |-> st.df[c]]]

\* the raw columns a later sample is replaced in, and the values it is replaced by:
\* missing, and a new maximum of the column
PipelineInputs == {"1h_high", "1h_volume", "1h_close", "4h_close"}
PipelineSamples == {Null, Num(30)}

\* two Datasets that agree before sample `position` and differ there, for engineerFeatures
PipelineProbes ==
    {[fn |-> "engineerFeatures", done |-> FALSE, dataset |-> d, column |-> c,
      position |-> j, sample |-> v, result |-> <<>>] :
        d \in DatasetIds, c \in PipelineInputs, j \in 2..Rows, v \in PipelineSamples}

\* engineerFeatures on the Dataset ("base") and on the Dataset with the later sample replaced ("changed")
CallEngineerFeatures ==
    /\ probe.fn = "engineerFeatures"
    /\ ~probe.done
    /\ probe' = [probe EXCEPT !.done = TRUE,
                              !.result = [k \in {"base", "changed"} |->
                                  EngineeredSignals(IF k = "base" THEN Dataset(probe.dataset)
                                                    ELSE WithSample(Dataset(probe.dataset), probe.column,
                                                                    probe.position, probe.sample))]]
    /\ UNCHANGED <<ensembleVars, pipelineVars, extractVars, serviceVars>>

InitLeakage ==
    /\ probe \in PipelineProbes
    /\ IdleEnsemble
    /\ IdlePipeline
    /\ IdleExtract
    /\ IdleService

NextLeakage == CallEngineerFeatures

SpecLeakage == InitLeakage /\ [][NextLeakage]_vars

InitUtility ==
    /\ \/ probe \in SignalProbes
       \/ probe \in ForexProbes
       \/ probe \in ShiftProbes
       \/ probe \in WindowProbes
       \/ \E na \in BOOLEAN, da \in BOOLEAN : probe \in DivideProbes(na, da)
    /\ IdleEnsemble
    /\ IdlePipeline
    /\ IdleExtract
    /\ IdleService

NextUtility ==
    \/ CallDirectionalSignals
    \/ CallShift
    \/ CallConservativeShift
    \/ CallSafeDivide
    \/ CallMovingAverages
    \/ CallRealizedVolatility
    \/ CallVolumeFeatures
    \/ CallRollingWindow

SpecUtility == InitUtility /\ [][NextUtility]_vars

(***************************************************************************)
(* Properties of the ensemble (SpecEnsemble)                               *)
(***************************************************************************)
CryptoReturned == decision.fn = "ensembleCryptoPredictions" /\ decision.result.status = "ok"
AnyReturned    == decision.fn # "none" /\ decision.result.status = "ok"

ProbabilityList(result) == <<result.probabilities.down, result.probabilities.neutral, result.probabilities.up>>

\* the element-wise average of the input triples
ElementwiseAverage(preds) ==
    [i \in 1..3 |-> JsDiv(JsSum([p \in 1..Len(preds) |-> preds[p][i]]), Num(Len(preds)))]

\* the 0-based index of the largest entry, the lowest such index on ties
ArgMaxLowest(avg) ==
    CHOOSE c \in 0..2 :
        /\ \A k \in 0..2 : JsLe(avg[k + 1], avg[c + 1])
        /\ \A k \in 0..(c - 1) : JsLt(avg[k + 1], avg[c + 1])

\* C4: whenever ensembleCryptoPredictions returns for a non-empty list of non-negative
\* triples, the three probabilities sum to 1 and the confidence is the largest of
\* them, a number in [0, 1].
C4_ProbabilitiesSumToOne ==
    CryptoReturned =>
        LET probs == ProbabilityList(decision.result)
        IN  /\ JsSum(probs) = Num(1)
            /\ decision.result.confidence = JsMaxOf(probs)
            /\ JsLe(Num(0), decision.result.confidence)
            /\ JsLe(decision.result.confidence, Num(1))

\* C5: whenever either ensemble function returns, the class is in {0, 1, 2} and is the
\* arg-max of the element-wise average (lowest index on ties), and the class name of
\* ensembleCryptoPredictions is DOWN, NEUTRAL or UP accordingly.
C5_ClassIsArgMax ==
    AnyReturned =>
        /\ decision.result.class \in {0, 1, 2}
        /\ decision.result.class = ArgMaxLowest(ElementwiseAverage(decision.input))
        /\ CryptoReturned => decision.result.className = classNames[decision.result.class + 1]

\* C6: either ensemble function raises its error exactly when the list is empty, and a
\* raised error carries no decision record.
C6_ErrorIffEmpty ==
    decision.fn # "none" =>
        /\ decision.result.status = "error" <=> Len(decision.input) = 0
        /\ decision.result.status = "error" =>
               DOMAIN decision.result \cap {"class", "className", "confidence", "probabilities"} = {}

\* C6 happens: ensembleCryptoPredictions was called on the empty list and raised
C6_Witness ==
    /\ decision.fn = "ensembleCryptoPredictions"
    /\ decision.input = <<>>
    /\ decision.result.status = "error"

(***************************************************************************)
(* Properties of the feature pipeline (Spec)                               *)
(***************************************************************************)
LastCall == run.calls[Len(run.calls)]

\* the last call was engineerFeatures and it returned normally
EngineeredNormally == Len(run.calls) > 0 /\ LastCall[1] = "engineerFeatures" /\ ~run.thrown

\* C1: after engineerFeatures returns normally, bullishFeatures and bearishFeatures have
\* the same length, whatever the quality phase rejected.
C1_BalancedAfterQuality ==
    EngineeredNormally => Len(engineer.bullishFeatures) = Len(engineer.bearishFeatures)

\* C2: after any sequence of addDirectionalFeatures / engineerFeatures calls the bullish
\* and bearish lists hold at most maxBullish and maxBearish names, every directional
\* push of the last call happened under the cap, and a candidate met at the cap was
\* neither written into the Dataset nor pushed.
C2_DirectionalCaps ==
    /\ Len(engineer.bullishFeatures) <= maxBullish
    /\ Len(engineer.bearishFeatures) <= maxBearish
    /\ \A k \in 1..Len(callLog.pushes) :
          /\ callLog.pushes[k][1] = "bullish" => callLog.pushes[k][3] < maxBullish
          /\ callLog.pushes[k][1] = "bearish" => callLog.pushes[k][3] < maxBearish
    /\ \A name \in callLog.capSkipped :
          /\ name \notin DOMAIN data
          /\ \A k \in 1..Len(callLog.pushes) : callLog.pushes[k][2] # name

\* C2 happens: the last call filled the bullish list to its cap and then met a candidate
C2_Witness ==
    /\ callLog.capSkipped # {}
    /\ \E k \in 1..Len(callLog.pushes) :
          callLog.pushes[k][1] = "bullish" /\ callLog.pushes[k][3] = maxBullish - 1

\* C3: after any sequence of engineerFeatures calls the neutral list holds at most
\* maxNeutral names, and every neutral push of the last call happened while the list
\* was under its cap.
C3_NeutralCap ==
    /\ Len(engineer.neutralFeatures) <= maxNeutral
    /\ \A k \in 1..Len(callLog.pushes) :
          callLog.pushes[k][1] = "neutral" => callLog.pushes[k][3] < maxNeutral

\* the five name lists of an instance
NameLists(e) ==
    <<e.featureNames, e.bullishFeatures, e.bearishFeatures, e.neutralFeatures, e.directionalClarityFeatures>>

\* a single engineerFeatures call on Dataset d by a freshly constructed instance
FreshRun(d) == engineerFeatures(NewEngineer([minDataPoints |-> engineer.minDataPoints]), Dataset(d))

\* C9: after engineerFeatures ran twice in a row on one instance, on the same Dataset,
\* its name lists are those of a single call on a freshly constructed instance.
C9_StatelessAcrossCalls ==
    (/\ Len(run.calls) = 2
     /\ EngineeredNormally
     /\ run.calls[1] = run.calls[2]) => NameLists(engineer) = NameLists(FreshRun(LastCall[2]).e)

\* the series a cache key stands for, computed from the columns of df
SeriesOfKey(key, df) ==
    CASE key = "1h_vol_ma_24" -> VolumeMaSeries(df, "1h", 24)
      [] key = "1h_atr_14"    -> AtrSeries(df, "1h", atrPeriod)
      [] key = "4h_atr_14"    -> AtrSeries(df, "4h", atrPeriod)
      [] key = "1d_atr_14"    -> AtrSeries(df, "1d", atrPeriod)

\* C10: every cached ATR or volume-MA series read during an engineerFeatures run was
\* computed from the columns of that run's Dataset, and no key was computed twice in
\* the run.
C10_CachesDoNotLeak ==
    (Len(run.calls) > 0 /\ LastCall[1] = "engineerFeatures") =>
        /\ \A k \in 1..Len(callLog.cacheReads) :
              callLog.cacheReads[k][2] = SeriesOfKey(callLog.cacheReads[k][1], Dataset(LastCall[2]))
        /\ \A j, k \in 1..Len(callLog.cacheComputes) :
              callLog.cacheComputes[j] = callLog.cacheComputes[k] => j = k

\* C10 happens: a run on one Dataset followed a call on the other, and read a key twice
C10_Witness ==
    /\ Len(run.calls) >= 2
    /\ EngineeredNormally
    /\ run.calls[Len(run.calls) - 1][2] \in DatasetIds \ {LastCall[2]}
    /\ \E j, k \in 1..Len(callLog.cacheReads) :
          j # k /\ callLog.cacheReads[j][1] = callLog.cacheReads[k][1]

(***************************************************************************)
(* Properties of the extractor (SpecExtract)                               *)
(***************************************************************************)
ExtractReturned == extraction.calls > 0 /\ extraction.outcome.status = "ok"

\* the 0-based index of the last row: the last index of the first array column
LastRow(df) == Len(df[FirstArrayKey(df)]) - 1

\* what the claim prescribes for one feature name
PrescribedEntry(df, name) ==
    IF name \notin DOMAIN df THEN Num(0)
    ELSE IF JsAt(df[name], LastRow(df)) \in {Null, Undef} THEN Num(0)
    ELSE IF JsAt(df[name], LastRow(df)) \in {NaN, PInf, NInf} THEN Num(0)
    ELSE JsAt(df[name], LastRow(df))

\* C7: whenever extractFeatureVector returns, the vector has one element per name of
\* the list, in the order of the list; an element is 0 when its column is absent or
\* its last-row value is null, undefined or not finite, and the last-row value
\* otherwise; every element is a finite number.
C7_VectorPerList ==
    ExtractReturned =>
        /\ Len(extraction.outcome.features) = Len(inputList)
        /\ \A j \in 1..Len(inputList) :
              /\ extraction.outcome.features[j] = PrescribedEntry(inputData, inputList[j])
              /\ IsFiniteNum(extraction.outcome.features[j])

\* C7 happens: a returned vector with an entry for an absent column, for a null, an
\* undefined, a NaN and an infinite last-row value, and for a non-zero finite one
C7_Witness ==
    /\ ExtractReturned
    /\ \E j \in 1..Len(inputList) : inputList[j] \notin DOMAIN inputData
    /\ \A v \in {Null, Undef, NaN, PInf, NInf} :
          \E j \in 1..Len(inputList) :
              inputList[j] \in DOMAIN inputData /\ JsAt(inputData[inputList[j]], LastRow(inputData)) = v
    /\ \E j \in 1..Len(inputList) : extraction.outcome.features[j] # Num(0)

C16_BalanceReport ==
    (/\ Len(run.calls) > 0
     /\ LastCall[1] = "getBalanceReport"
     /\ engineer.featureNames # <<>>)
    => /\ ~run.thrown
       /\ run.report.total_features = Len(engineer.featureNames)
       /\ run.report.bullish_count = Len(engineer.bullishFeatures)
       /\ run.report.bearish_count = Len(engineer.bearishFeatures)
       /\ run.report.neutral_count = Len(engineer.neutralFeatures)
       /\ run.report.clarity_count = Len(engineer.directionalClarityFeatures)
       /\ run.report.is_balanced = (Len(engineer.bullishFeatures) = Len(engineer.bearishFeatures))

(***************************************************************************)
(* Properties of the input validation (SpecValidate)                       *)
(***************************************************************************)
\* the required fields of df that are absent, not an array, or shorter than minDataPoints
FaultyFields(e, df) ==
    {f \in {"1h_close", "1h_volume"} :
        \/ f \notin DOMAIN df
        \/ df[f] \in {NoSeries, NotAnArray}
        \/ Len(df[f]) < e.minDataPoints}

\* C13: an engineerFeatures call on a Dataset whose 1h_close or 1h_volume is absent, not an
\* array or shorter than minDataPoints throws, the error names exactly the faulty fields, no
\* column has been added to the Dataset, and featureNames and the four category lists are
\* as they were before the call
C13_FailsFastOnFaultyInput ==
    [][(/\ Len(run'.calls) = Len(run.calls) + 1
        /\ FaultyFields(engineer, Dataset(run'.calls[Len(run'.calls)][2])) # {})
       => /\ run'.thrown
          /\ {run'.message[k][1] : k \in 1..Len(run'.message)}
                 = FaultyFields(engineer, Dataset(run'.calls[Len(run'.calls)][2]))
          /\ data' = Dataset(run'.calls[Len(run'.calls)][2])
          /\ NameLists(engineer') = NameLists(engineer)]_vars

\* C13 happens: an instance that holds features from an earlier call has thrown on the
\* Dataset with two faulty fields, naming both
C13_Witness ==
    /\ run.thrown
    /\ Len(run.message) = 2
    /\ run.message[1][2] # run.message[2][2]
    /\ engineer.featureNames # <<>>
    /\ engineer.bullishFeatures # <<>>

(***************************************************************************)
(* Properties of the utilities (SpecUtility)                               *)
(***************************************************************************)
SignalsCompared == probe.fn = "addDirectionalFeatures" /\ probe.done

\* C11: for two Datasets that are identical before a position and differ at it, every
\* shift-built signal (volume_on_breakout_up, volume_on_breakdown, higher_highs,
\* lower_lows, bullish/bearish_momentum_1h/4h) is built for both or for neither, and its
\* values at every earlier position are identical
C11_NoFutureData ==
    SignalsCompared =>
        /\ DOMAIN probe.result.base = DOMAIN probe.result.changed
        /\ \A c \in DOMAIN probe.result.base :
               \A i \in 1..(probe.position - 1) : probe.result.base[c][i] = probe.result.changed[c][i]

\* C11 happens: the replaced sample changed a shift-built signal at its own or a later
\* position, and left every earlier position alone
C11_Witness ==
    /\ SignalsCompared
    /\ probe.position < Rows
    /\ \E c \in DOMAIN probe.result.base :
           /\ \E i \in probe.position..Rows : probe.result.base[c][i] # probe.result.changed[c][i]
           /\ \A i \in 1..(probe.position - 1) : probe.result.base[c][i] = probe.result.changed[c][i]

Shifted == probe.fn \in ShiftNames /\ probe.done

\* the array the contract of shift prescribes: series[i - k] where that index exists, else null
ShiftPrescribed(series, k) ==
    [i \in 1..Len(series) |-> IF (i - k) \in 1..Len(series) THEN series[i - k] ELSE Null]

\* C12: for every array and every integer k (positive, negative, zero, |k| >= length),
\* CryptoFeatureEngineer.shift and ConservativeFeatureEngineer.shift both return an array of
\* the same length holding series[i - k] where 0 <= i - k < length and null elsewhere, so
\* the two agree and k = 0 returns the same samples; shift([1,2,3,4], 2) = [null,null,1,2] and
\* shift([1,2,3,4], -1) = [2,3,4,null]
C12_ShiftContract ==
    Shifted =>
        /\ Len(probe.result) = Len(probe.arr)
        /\ probe.result = ShiftPrescribed(probe.arr, probe.periods)
        /\ probe.result = shift(probe.arr, probe.periods)
        /\ probe.result = ConservativeFeatureEngineer_shift(probe.arr, probe.periods)
        /\ (probe.arr = <<Num(1), Num(2), Num(3), Num(4)>> /\ probe.periods = 2
                => probe.result = <<Null, Null, Num(1), Num(2)>>)
        /\ (probe.arr = <<Num(1), Num(2), Num(3), Num(4)>> /\ probe.periods = -1
                => probe.result = <<Num(2), Num(3), Num(4), Null>>)

\* C12 happens: ConservativeFeatureEngineer.shift([1,2,3,4], -1) has returned [2,3,4,null]
C12_Witness ==
    /\ Shifted
    /\ probe.fn = "ConservativeFeatureEngineer.shift"
    /\ probe.arr = <<Num(1), Num(2), Num(3), Num(4)>>
    /\ probe.periods = -1
    /\ probe.result = <<Num(2), Num(3), Num(4), Null>>

Divided == probe.fn = "safeDivide" /\ probe.done

\* the fill value in force: the one given, 0 when none was given
FillInForce == IF probe.fillValue = Undef THEN Num(0) ELSE probe.fillValue

\* what the contract of safeDivide prescribes for one numerator and one denominator
QuotientPrescribed(num, den) ==
    IF den \in {Num(0), Null, Undef, NaN} THEN FillInForce ELSE JsDiv(num, den)

\* element i of an argument: the scalar itself, or the array's element (undefined beyond its end)
ElementOf(isArray, arg, i) == IF isArray THEN At(arg, i) ELSE arg

\* C14: in each of the four array/scalar combinations safeDivide returns, element by
\* element, the fill value (0 when none is given) where the denominator is 0, null,
\* undefined or NaN, and numerator / denominator elsewhere; so no element with a zero or
\* missing denominator is NaN or infinite, and safeDivide([10], [0]) = [0]
C14_SafeDivideFills ==
    Divided =>
        IF probe.numeratorIsArray \/ probe.denominatorIsArray
        THEN /\ Len(probe.result) = IF probe.numeratorIsArray THEN Len(probe.numerator) ELSE Len(probe.denominator)
             /\ \A i \in 1..Len(probe.result) :
                    probe.result[i] = QuotientPrescribed(ElementOf(probe.numeratorIsArray, probe.numerator, i),
                                                         ElementOf(probe.denominatorIsArray, probe.denominator, i))
        ELSE probe.result = QuotientPrescribed(probe.numerator, probe.denominator)

\* C14 happens: safeDivide([10], [0]) has returned [0]
C14_Witness ==
    /\ Divided
    /\ probe.numeratorIsArray /\ probe.denominatorIsArray
    /\ probe.numerator = <<Num(10)>>
    /\ probe.denominator = <<Num(0)>>
    /\ probe.fillValue = Undef
    /\ probe.result = <<Num(0)>>

FallbackBuilt ==
    probe.fn \in {"addConservativeMovingAverages", "addRealizedVolatility", "addVolumeFeatures"} /\ probe.done

\* the rolling and the expanding aggregate the feature of the probe is built from
RollingPart ==
    IF probe.fn = "addRealizedVolatility" THEN rollingStd(probe.series, probe.window, probe.window)
    ELSE rolling(probe.series, probe.window, probe.window)

ExpandingPart ==
    IF probe.fn = "addRealizedVolatility" THEN expandingStd(probe.series, 2) ELSE expanding(probe.series, 1)

\* the positions from the first valid (non-null, non-NaN) sample onward
FromFirstValid(series) == {i \in 1..Len(series) : \E j \in 1..i : IsValid(series[j])}

\* C15: sma_N, volatility_N and volume_ma equal the rolling aggregate wherever it is
\* non-null and the expanding aggregate elsewhere; on a series shorter than the window the
\* rolling aggregate is null everywhere and the feature is the expanding aggregate at every
\* index; and sma_N and volume_ma are non-null from the first valid sample onward
C15_RollingThenExpanding ==
    FallbackBuilt =>
        /\ Len(probe.result) = Len(probe.series)
        /\ \A i \in 1..Len(probe.series) :
               probe.result[i] = IF RollingPart[i] # Null THEN RollingPart[i] ELSE ExpandingPart[i]
        /\ (Len(probe.series) < probe.window =>
               /\ \A i \in 1..Len(probe.series) : RollingPart[i] = Null
               /\ probe.result = ExpandingPart)
        /\ (probe.fn # "addRealizedVolatility" =>
               \A i \in FromFirstValid(probe.series) : probe.result[i] # Null)

\* C15 happens: a feature was built that takes the expanding value at an early position,
\* the rolling value at a later one, and the two aggregates differ at that later position
C15_Witness ==
    /\ FallbackBuilt
    /\ \E i \in 1..Len(probe.series) : RollingPart[i] = Null /\ probe.result[i] # Null
    /\ \E i \in 1..Len(probe.series) :
           RollingPart[i] # Null /\ RollingPart[i] # ExpandingPart[i] /\ probe.result[i] = RollingPart[i]

(***************************************************************************)
(* Properties of the Balance & Quality Enforcer (SpecBalance,              *)
(* SpecEnforcer)                                                           *)
(***************************************************************************)
NamesOf(list) == {list[k] : k \in 1..Len(list)}

\* one enforceDirectionalBalance: both lists are left as their first min(b, r) names, and
\* the names returned are the rest of the longer list
TrimmedAtTheEnd(b) ==
    LET least == Smaller(Len(b.bullish), Len(b.bearish))
    IN  /\ b.keptBullish = SubSeq(b.bullish, 1, least)
        /\ b.keptBearish = SubSeq(b.bearish, 1, least)
        /\ b.removed = SubSeq(b.bullish, least + 1, Len(b.bullish)) \o SubSeq(b.bearish, least + 1, Len(b.bearish))

BalancedDirectly == Len(run.calls) > 0 /\ LastCall[1] = "enforceDirectionalBalance"

\* C17: enforceDirectionalBalance leaves both lists equal to their first min(b, r) names in
\* the original order and returns exactly the names dropped from the end of the longer
\* list; engineerFeatures then deletes the column of each returned name from the Dataset
\* and removes the name from featureNames.
C17_BalanceDropsFromTheEnd ==
    /\ \A k \in 1..Len(callLog.balance) : TrimmedAtTheEnd(callLog.balance[k])
    /\ BalancedDirectly =>
          /\ Len(callLog.balance) = 1
          /\ engineer.bullishFeatures = callLog.balance[1].keptBullish
          /\ engineer.bearishFeatures = callLog.balance[1].keptBearish
    /\ EngineeredNormally =>
          /\ Len(callLog.balance) = 1
          /\ NamesOf(engineer.bullishFeatures) \subseteq NamesOf(callLog.balance[1].keptBullish)
          /\ NamesOf(engineer.bearishFeatures) \subseteq NamesOf(callLog.balance[1].keptBearish)
          /\ \A name \in NamesOf(callLog.balance[1].removed) :
                ~Has(data, name) /\ name \notin NamesOf(engineer.featureNames)

\* an engineerFeatures call whose balance step dropped names from the longer, bullish list
C17_Witness ==
    /\ EngineeredNormally
    /\ Len(callLog.balance) = 1
    /\ callLog.balance[1].removed # <<>>
    /\ Len(callLog.balance[1].bullish) > Len(callLog.balance[1].bearish)
    /\ Len(callLog.balance[1].bearish) > 0

\* the step is a checkFeatureQuality call that returned
QualityStep ==
    /\ Len(run'.calls) = Len(run.calls) + 1
    /\ run'.calls[Len(run'.calls)][1] = "checkFeatureQuality"
    /\ ~run'.thrown

\* the Dataset that call was given
QualityInput == Crafted(data, engineer.featureNames, run'.calls[Len(run'.calls)][2])

\* the signal fails one of the four checks on df
FailsACheck(df, feat) ==
    LET totalRows == Len(df[FirstArrayKey(df)])
    IN  \/ ~Has(df, feat)
        \/ 10 * Cardinality({i \in 1..Len(df[feat]) : df[feat][i] \in {Null, NaN, Undef}}) > totalRows
        \/ Cardinality({df[feat][i] : i \in 1..Len(df[feat])} \ {Null, NaN, Undef}) <= 1
        \/ 100 * Cardinality({i \in 1..Len(df[feat]) : df[feat][i] = Zero}) > 95 * totalRows

CategoryLists == {"bullishFeatures", "bearishFeatures", "neutralFeatures", "directionalClarityFeatures"}

\* C18: every signal in featureNames whose column is missing, is more than 10% null/NaN,
\* has at most one distinct valid value or is more than 95% zeros is, after
\* checkFeatureQuality, absent from featureNames, from the four category lists and from
\* the Dataset; every other signal stays in its list and in the Dataset.
C18_FailingSignalsRemoved ==
    [][QualityStep =>
          \A feat \in NamesOf(engineer.featureNames) :
              IF FailsACheck(QualityInput, feat)
              THEN /\ feat \notin NamesOf(engineer'.featureNames)
                   /\ \A list \in CategoryLists : feat \notin NamesOf(engineer'[list])
                   /\ ~Has(data', feat)
              ELSE /\ feat \in NamesOf(engineer'.featureNames)
                   /\ \A list \in CategoryLists : feat \in NamesOf(engineer[list]) <=> feat \in NamesOf(engineer'[list])
                   /\ Has(data', feat)]_vars

\* the part of C18 about the lists alone: failing signals leave featureNames and the four
\* lists, the others stay where they were
QualityFiltersTheLists ==
    [][QualityStep =>
          \A feat \in NamesOf(engineer.featureNames) :
              /\ feat \in NamesOf(engineer'.featureNames) <=> ~FailsACheck(QualityInput, feat)
              /\ \A list \in CategoryLists :
                    feat \in NamesOf(engineer'[list]) <=>
                        feat \in NamesOf(engineer[list]) /\ ~FailsACheck(QualityInput, feat)]_vars

\* the step is a second enforceDirectionalBalance immediately after the first
BalanceAgain ==
    /\ BalancedDirectly
    /\ run'.calls = Append(run.calls, <<"enforceDirectionalBalance", 0>>)

\* the step is a second checkFeatureQuality, on the output of the first
QualityAgain ==
    /\ Len(run.calls) > 0
    /\ LastCall[1] = "checkFeatureQuality"
    /\ ~run.thrown
    /\ run'.calls = Append(run.calls, <<"checkFeatureQuality", 0>>)

ListsUnchanged ==
    /\ engineer'.featureNames = engineer.featureNames
    /\ \A list \in CategoryLists : engineer'[list] = engineer[list]

\* the balance half of C19: a second enforceDirectionalBalance returns no name and leaves
\* the lists as they were
BalanceIdempotent ==
    [][BalanceAgain => callLog'.balance[1].removed = <<>> /\ ListsUnchanged]_vars

\* C19: both phases are idempotent: a second enforceDirectionalBalance immediately after the
\* first removes nothing and leaves both lists unchanged, and a second checkFeatureQuality
\* on the output of the first leaves featureNames, the four category lists and every
\* Dataset column unchanged.
C19_EnforcerIdempotent ==
    [][/\ BalanceAgain => callLog'.balance[1].removed = <<>> /\ ListsUnchanged
       /\ QualityAgain => ListsUnchanged /\ data' = data]_vars

\* the value the claim prescribes at position i of a retained column: the value itself when
\* it is a finite number, else the nearest earlier finite number of the original series,
\* else the nearest later one, else 0
PrescribedValue(series, i) ==
    LET earlier == {j \in 1..(i - 1) : IsFiniteNum(series[j])}
        later   == {j \in (i + 1)..Len(series) : IsFiniteNum(series[j])}
    IN  IF IsFiniteNum(series[i]) THEN series[i]
        ELSE IF earlier # {} THEN series[CHOOSE j \in earlier : \A k \in earlier : k <= j]
        ELSE IF later # {} THEN series[CHOOSE j \in later : \A k \in later : j <= k]
        ELSE Zero

\* the retained column is the original one with every value that is not a finite number
\* replaced as prescribed
RepairedAsPrescribed(before, after) ==
    /\ Len(after) = Len(before)
    /\ \A i \in 1..Len(before) : after[i] = PrescribedValue(before, i) /\ IsFiniteNum(after[i])

\* C20: in every signal column checkFeatureQuality retains, each non-finite value is
\* replaced by the nearest earlier finite value of the original series, else the nearest
\* later one, else 0, and so the column holds only finite numbers afterwards.
C20_RetainedColumnsFinite ==
    [][QualityStep =>
          \A feat \in NamesOf(engineer'.featureNames) :
              RepairedAsPrescribed(QualityInput[feat], data'[feat])]_vars

\* the same for the retained columns that hold no null
NonNullColumnsRepaired ==
    [][QualityStep =>
          \A feat \in NamesOf(engineer'.featureNames) :
              (\A i \in 1..Len(QualityInput[feat]) : QualityInput[feat][i] # Null)
                  => RepairedAsPrescribed(QualityInput[feat], data'[feat])]_vars

\* a retained column that held only +-Infinity and was repaired to zeros
RepairsSeen ==
    /\ Len(run.calls) > 1
    /\ LastCall = <<"checkFeatureQuality", 5>>
    /\ run.calls[Len(run.calls) - 1][1] = "engineerFeatures"
    /\ engineer.featureNames # <<>>
    /\ \A i \in 1..Rows : data[engineer.featureNames[1]][i] = Zero

(***************************************************************************)
(* Properties of the feature pipeline, continued (Spec)                    *)
(***************************************************************************)
\* the first call on the instance was engineerFeatures, and it returned
EngineeredFresh == EngineeredNormally /\ Len(run.calls) = 1

AllCategories ==
    engineer.bullishFeatures \o engineer.bearishFeatures \o engineer.neutralFeatures \o engineer.directionalClarityFeatures

\* C21: after engineerFeatures on a fresh engineer every signal name is in at most one of
\* the four category lists and at most once in it, featureNames is the concatenation
\* bullish ++ bearish ++ neutral ++ clarity, and every name has a column in the Dataset.
C21_FeatureNamesAreTheCategories ==
    EngineeredFresh =>
        /\ \A j, k \in 1..Len(AllCategories) : AllCategories[j] = AllCategories[k] => j = k
        /\ engineer.featureNames = AllCategories
        /\ \A name \in NamesOf(engineer.featureNames) : Has(data, name)

\* a fresh call that left names in all four lists after the quality phase removed some
C21_Witness ==
    /\ EngineeredFresh
    /\ \A list \in CategoryLists : engineer[list] # <<>>
    /\ \E k \in 1..Len(callLog.pushes) : callLog.pushes[k][2] \notin NamesOf(engineer.featureNames)

(***************************************************************************)
(* Properties of the per-signal isolation (SpecIsolation)                  *)
(***************************************************************************)
\* the Dataset the last call was given
LastDataset == Dataset(LastCall[2])

DirectionalCandidates == NamesOf(BullishCandidates) \cup NamesOf(BearishCandidates)

\* a raw input column of the candidate is missing from the Dataset
MissesAnInput(name, df) == ~InputsPresent(name, df, df["1h_volume"])

PushedNames == {callLog.pushes[k][2] : k \in 1..Len(callLog.pushes)}

InSomeList(name) == \E list \in CategoryLists : name \in NamesOf(engineer[list])

\* the candidate was attempted: pushed, or met at the cap
Attempted(name) == name \in PushedNames \/ name \in callLog.capSkipped

\* C22: when the required columns are valid, engineerFeatures returns without raising
\* whatever optional column is missing and whichever candidate computation throws; the
\* affected candidate is in no category list, every other candidate is still attempted,
\* and a pushed name had its column written (it is a column of the Dataset unless the
\* balance step deleted it).
C22_FailuresAreIsolated ==
    (Len(run.calls) > 0 /\ LastCall[1] = "engineerFeatures") =>
        /\ run.thrown => ValidationErrors(engineer, LastDataset) # <<>>
        /\ ~run.thrown =>
              /\ \A name \in DirectionalCandidates :
                    IF MissesAnInput(name, LastDataset) \/ BlockThrows(name, LastDataset)
                    THEN name \notin PushedNames /\ ~InSomeList(name)
                    ELSE Attempted(name)
              /\ \A name \in PushedNames :
                    Has(data, name) \/ \E k \in 1..Len(callLog.balance) : name \in NamesOf(callLog.balance[k].removed)

\* the same for the first call on an instance
IsolatedOnAFreshInstance == Len(run.calls) = 1 => C22_FailuresAreIsolated

\* the errors caught are those of the candidates whose computation throws, and no call
\* raises for another reason than the validation
ErrorsAreCaught ==
    (Len(run.calls) > 0 /\ LastCall[1] = "engineerFeatures") =>
        /\ run.thrown => ValidationErrors(engineer, LastDataset) # <<>>
        /\ ~run.thrown =>
              callLog.caught = {name \in DirectionalCandidates \ callLog.capSkipped :
                                   ~MissesAnInput(name, LastDataset) /\ BlockThrows(name, LastDataset)}

\* a first call in which the computation of one candidate threw and the later candidates
\* were still pushed
IsolationSeen ==
    /\ EngineeredFresh
    /\ callLog.caught = {"support_bounce_strength"}
    /\ "bullish_momentum_1h" \in PushedNames
    /\ "negative_volume_delta" \in PushedNames

(***************************************************************************)
(* Properties of the utilities, continued (SpecUtility)                    *)
(***************************************************************************)
Windowed == probe.fn = "rollingWindow" /\ probe.done

\* the valid samples of the trailing window [max(1, i - window + 1) .. i]
TrailingValid(i) ==
    SelectSeq([k \in 1..Smaller(i, probe.window) |-> probe.arr[i - Smaller(i, probe.window) + k]],
              LAMBDA v : v \notin {Null, NaN, Undef})

\* the number of valid samples a window needs: minPeriods, or half the window when omitted
SamplesNeeded == IF probe.minPeriods > 0 THEN probe.minPeriods ELSE probe.window \div 2

RECURSIVE Fold(_, _)
\* the operation over a non-empty list of valid samples
Fold(samples, operation) ==
    IF Len(samples) = 1 THEN samples[1]
    ELSE LET rest == Fold(Tail(samples), operation)
         IN  CASE operation = "max" -> IF JsGt(samples[1], rest) THEN samples[1] ELSE rest
               [] operation = "min" -> IF JsLt(samples[1], rest) THEN samples[1] ELSE rest
               [] OTHER             -> JsAdd(samples[1], rest)

OperationOver(samples, operation) ==
    IF operation = "mean" THEN JsDiv(Fold(samples, "sum"), Num(Len(samples))) ELSE Fold(samples, operation)

\* C23: rollingWindow yields null at every position whose trailing window holds too few
\* valid samples, in particular none at all, whatever window >= 1 and minPeriods are
\* given; elsewhere it yields the operation over exactly the valid samples of the window,
\* so no result is NaN or +-Infinity.
C23_RollingWindowNullWhenInsufficient ==
    Windowed =>
        /\ Len(probe.result) = Len(probe.arr)
        /\ \A i \in 1..Len(probe.arr) :
              /\ probe.result[i] \notin {NaN, PInf, NInf}
              /\ IF Len(TrailingValid(i)) = 0 \/ Len(TrailingValid(i)) < SamplesNeeded
                 THEN probe.result[i] = Null
                 ELSE probe.result[i] = OperationOver(TrailingValid(i), probe.operation)

\* the same wherever at least one valid sample is needed
RollingWindowWithMinPeriods ==
    (Windowed /\ SamplesNeeded >= 1) => C23_RollingWindowNullWhenInsufficient

\* a window with some valid samples, fewer than needed, and one with enough
RollingWindowSeen ==
    /\ Windowed
    /\ SamplesNeeded = 2
    /\ \E i \in 1..Len(probe.arr) : Len(TrailingValid(i)) = 1 /\ probe.result[i] = Null
    /\ \E i \in 1..Len(probe.arr) : Len(TrailingValid(i)) = 2 /\ probe.result[i] # Null

(***************************************************************************)
(* Properties of the feature pipeline: missing values (Spec)               *)
(***************************************************************************)
\* the signal columns built from pctChange of 1h_close, with the period each one uses
MomentumPeriods ==
    [bullish_momentum_1h |-> 3, bearish_momentum_1h |-> 3, sideways_movement |-> 10]

\* pctChange of the 1h_close column the last call was given
CloseChange(periods) == pctChange(LastDataset["1h_close"], periods)

\* C24: in the Dataset engineerFeatures returns, a signal column derived from pctChange
\* of 1h_close is null wherever that pctChange is null (its first positions): the
\* missing value is not turned into a number.
C24_MissingStaysMissing ==
    EngineeredNormally =>
        \A name \in DOMAIN MomentumPeriods :
            Has(data, name) =>
                \A i \in 1..Len(data[name]) :
                    CloseChange(MomentumPeriods[name])[i] = Null => data[name][i] = Null

\* what the columns hold there instead: 0 for the clipped momentum, 1 for sideways_movement
MissingBecomesANumber ==
    EngineeredNormally =>
        \A name \in DOMAIN MomentumPeriods :
            Has(data, name) =>
                \A i \in 1..Len(data[name]) :
                    CloseChange(MomentumPeriods[name])[i] = Null =>
                        data[name][i] = IF name = "sideways_movement" THEN Num(1) ELSE Num(0)

MissingSeen ==
    /\ EngineeredNormally
    /\ \A name \in DOMAIN MomentumPeriods : Has(data, name) /\ CloseChange(MomentumPeriods[name])[1] = Null

(***************************************************************************)
(* Properties of the whole transformation (SpecLeakage)                    *)
(***************************************************************************)
PipelinesCompared ==
    probe.fn = "engineerFeatures" /\ probe.done /\ ~probe.result.base.thrown /\ ~probe.result.changed.thrown

\* the columns both runs name in featureNames
SharedColumns == DOMAIN probe.result.base.columns \cap DOMAIN probe.result.changed.columns

SameBefore(c) ==
    \A i \in 1..(probe.position - 1) : probe.result.base.columns[c][i] = probe.result.changed.columns[c][i]

\* C25: for two Datasets that are identical before a position and differ at it, every
\* column named in featureNames after engineerFeatures has identical values at every
\* earlier position.
C25_LeakageSafe ==
    PipelinesCompared => \A c \in SharedColumns : SameBefore(c)

\* the columns that are not built by normalising over the whole series
WindowedColumns == SharedColumns \ {"directional_clarity", "directional_bias"}

WindowedColumnsLeakageSafe ==
    PipelinesCompared => \A c \in WindowedColumns : SameBefore(c)

LeakageSeen ==
    /\ PipelinesCompared
    /\ probe.position = Rows
    /\ "directional_clarity" \in SharedColumns
    /\ ~SameBefore("directional_clarity")
    /\ \E c \in WindowedColumns : probe.result.base.columns[c][Rows] # probe.result.changed.columns[c][Rows]

(***************************************************************************)
(* Inference (predict-crypto-handler.js): runOptimizedInference and        *)
(* runEnsemblePredictions run the loaded models one after the other, each  *)
(* awaited before the next starts.  A model is given by what its inference *)
(* does; the call is a process that advances one loop iteration at a time. *)
(***************************************************************************)
MaxLoaded == 3
InferenceFunctions == {"runOptimizedInference", "runEnsemblePredictions"}

\* what running a model does: it yields its output, predict throws, the timer wins the
\* race, or outputTensor.data() rejects
ModelOutcomes == {"output", "predict throws", "timeout", "data rejects"}
ModelLists == UNION {[1..n -> ModelOutcomes] : n \in 0..MaxLoaded}

\* CONFIG.MODELS
CONFIG_MODELS ==
    <<"bidirectional_attention", "hierarchical_lstm", "hybrid_transformer", "multiscale_transformer",
      "temporal_transformer">>

\* Array.from(await outputTensor.data()) of the model at index i
OutputOf(i) == <<Rat(i + 1, ProbScale), Rat(1, ProbScale), Rat(ProbScale - 2 - i, ProbScale)>>

\* error.message of a failed inference
ErrorOf(fn, outcome, i) ==
    CASE outcome = "timeout" /\ fn = "runOptimizedInference" -> "Prediction timeout"
      [] outcome = "timeout"                                  -> "Timeout for model"
      [] outcome = "predict throws"                           -> "predict failed"
      [] OTHER                                                -> "data failed"

\* an iteration that lets the error of a failed model escape the loop
runModel_failFast(st) ==
    IF st.models[st.i + 1] = "output"
    THEN [st EXCEPT !.predictions = Append(@, OutputOf(st.i)),
                    !.results = Append(@, [model |-> CONFIG_MODELS[st.i + 1], success |-> TRUE,
                                           prediction |-> OutputOf(st.i)]),
                    !.i = @ + 1]
    ELSE [st EXCEPT !.status = "thrown", !.message = ErrorOf(st.fn, st.models[st.i + 1], st.i)]

\* one iteration of the for loop: try { predict; push } catch { push the failure }
runModel(st) ==
    IF st.models[st.i + 1] = "output"
    THEN [st EXCEPT !.predictions = Append(@, OutputOf(st.i)),
                    !.results = Append(@, [model |-> CONFIG_MODELS[st.i + 1], success |-> TRUE,
                                           prediction |-> OutputOf(st.i)]),
                    !.i = @ + 1]
    ELSE [st EXCEPT !.results = Append(@, [model |-> CONFIG_MODELS[st.i + 1], success |-> FALSE,
                                           error |-> ErrorOf(st.fn, st.models[st.i + 1], st.i)]),
                    !.i = @ + 1]

\* the call has been made and has not run its first statement
Called(fn, models) ==
    [fn |-> fn, models |-> models, i |-> 0, predictions |-> <<>>, results |-> <<>>,
     status |-> "called", message |-> ""]

\* the statements before the loop: runOptimizedInference refuses an empty model list
EnterInference ==
    /\ inference.fn \in InferenceFunctions
    /\ inference.status = "called"
    /\ inference' = IF inference.fn = "runOptimizedInference" /\ Len(inference.models) = 0
                    THEN [inference EXCEPT !.status = "thrown", !.message = "No models available for inference"]
                    ELSE [inference EXCEPT !.status = "running"]
    /\ UNCHANGED <<ensembleVars, pipelineVars, extractVars, utilityVars, request, loader, limiter>>

RunModel ==
    /\ inference.fn \in InferenceFunctions
    /\ inference.status = "running"
    /\ inference.i < Len(inference.models)
    /\ inference' = runModel(inference)
    /\ UNCHANGED <<ensembleVars, pipelineVars, extractVars, utilityVars, request, loader, limiter>>

\* after the loop: throw when no model succeeded, else return { predictions, results }
LeaveInference ==
    /\ inference.fn \in InferenceFunctions
    /\ inference.status = "running"
    /\ inference.i = Len(inference.models)
    /\ inference' = IF Len(inference.predictions) = 0
                    THEN [inference EXCEPT !.status = "thrown", !.message = "All predictions failed"]
                    ELSE [inference EXCEPT !.status = "returned"]
    /\ UNCHANGED <<ensembleVars, pipelineVars, extractVars, utilityVars, request, loader, limiter>>

InitInference ==
    /\ inference \in {Called(fn, models) : fn \in InferenceFunctions, models \in ModelLists}
    /\ request = NoRequest
    /\ loader = NoLoader
    /\ limiter = NoLimiter
    /\ IdleEnsemble
    /\ IdlePipeline
    /\ IdleExtract
    /\ IdleUtility

NextInference ==
    \/ EnterInference
    \/ RunModel
    \/ LeaveInference

SpecInference == InitInference /\ [][NextInference]_vars

(***************************************************************************)
(* Properties of the inference (SpecInference)                             *)
(***************************************************************************)
\* the indices, among the first n models, of those whose inference yields an output
RECURSIVE Succeeded(_, _)
Succeeded(models, n) ==
    IF n = 0 THEN <<>>
    ELSE IF models[n] = "output" THEN Append(Succeeded(models, n - 1), n - 1)
    ELSE Succeeded(models, n - 1)

Inferring == inference.fn \in InferenceFunctions

\* C26: whatever models fail or time out, the models are run in list order, results
\* holds one entry per model run, in that order, marked with whether it succeeded,
\* predictions holds the outputs of the models that succeeded, in model order, and the
\* call throws only when no model succeeded: what it returns is never an empty list.
C26_PerModelIsolation ==
    Inferring =>
        /\ Len(inference.results) = inference.i
        /\ \A k \in 1..inference.i :
               /\ inference.results[k].model = CONFIG_MODELS[k]
               /\ inference.results[k].success = (inference.models[k] = "output")
        /\ inference.predictions =
               [k \in 1..Len(Succeeded(inference.models, inference.i)) |->
                    OutputOf(Succeeded(inference.models, inference.i)[k])]
        /\ inference.status = "returned" =>
               /\ inference.i = Len(inference.models)
               /\ inference.predictions # <<>>
        /\ inference.status = "thrown" =>
               /\ inference.i = Len(inference.models)
               /\ Succeeded(inference.models, Len(inference.models)) = <<>>

\* C26 happens: a call returned although a model before and a model after a successful
\* one failed, one of them by timeout
C26_Witness ==
    /\ Inferring
    /\ inference.status = "returned"
    /\ inference.models = <<"timeout", "output", "predict throws">>
    /\ Len(inference.results) = 3
    /\ inference.predictions = <<OutputOf(1)>>

(***************************************************************************)
(* The prediction handlers (predict-crypto.js, predict.js): a request      *)
(* whose models are loaded runs the inference, ensembles the predictions,  *)
(* queues the storage call and sends its response.                         *)
(***************************************************************************)
\* the optimized and the legacy crypto handler of predict-crypto.js, and the handler of predict.js
CryptoHandlers == {"predict-crypto", "predict-crypto legacy"}
Handlers == CryptoHandlers \cup {"predict"}

\* the inference each handler runs; predict.js has its loop in the handler
InferenceOf(handler) ==
    CASE handler = "predict-crypto"        -> "runOptimizedInference"
      [] handler = "predict-crypto legacy" -> "runEnsemblePredictions"
      [] OTHER                             -> "predict"

\* how the storage call of a request ends: the record is stored, the store answers with
\* an HTTP error, the fetch is aborted by the timer, or fetch throws
StorageOutcomes == {"stored", "http error", "timeout", "fetch throws"}
StoredId == "id-1"

\* what storeCryptoPredictionAsync / storeCryptoPrediction resolves to
storeCryptoPredictionAsync(outcome) ==
    IF outcome = "stored" THEN [success |-> TRUE, id |-> StoredId]
    ELSE [success |-> FALSE, id |-> "undefined"]

\* storageResult.id, or storageResult.id || null
IdOrNull(storageResult) == IF storageResult.id = "undefined" THEN "null" ELSE storageResult.id

Loaded(handler, models) ==
    [handler |-> handler, models |-> models, status |-> "loaded", response |-> [status |-> 0],
     storage |-> "none", storageResult |-> [success |-> FALSE, id |-> "null"]]

\* the handler after model loading: no model loaded is answered at once, else the inference starts
StartInference ==
    /\ request.handler \in Handlers
    /\ request.status = "loaded"
    /\ IF Len(request.models) = 0
       THEN /\ request' = [request EXCEPT !.status = "responded",
                                          !.response = [status |-> IF request.handler = "predict" THEN 500 ELSE 503]]
            /\ UNCHANGED inference
       ELSE /\ request' = [request EXCEPT !.status = "inferring"]
            /\ inference' = IF request.handler = "predict"
                            THEN [Called("predict", request.models) EXCEPT !.status = "running"]
                            ELSE Called(InferenceOf(request.handler), request.models)
    /\ UNCHANGED <<ensembleVars, pipelineVars, extractVars, utilityVars, loader, limiter>>

\* predict.js: try { predictions.push(await runPrediction(model, featureVector)) } catch { warn }
RunPrediction ==
    /\ inference.fn = "predict"
    /\ inference.status = "running"
    /\ inference.i < Len(inference.models)
    /\ inference' = IF inference.models[inference.i + 1] = "output"
                    THEN [inference EXCEPT !.predictions = Append(@, OutputOf(inference.i)), !.i = @ + 1]
                    ELSE [inference EXCEPT !.i = @ + 1]
    /\ UNCHANGED <<ensembleVars, pipelineVars, extractVars, utilityVars, request, loader, limiter>>

\* the inference of the request is over
InferenceOver ==
    \/ inference.fn \in InferenceFunctions /\ inference.status \in {"returned", "thrown"}
    \/ inference.fn = "predict" /\ inference.i = Len(inference.models)

\* the 200 response of predict.js
PredictResponse(result, models) ==
    [status |-> 200, prediction |-> result.class, models_used |-> Len(models)]

\* the 200 response of the crypto handlers; storageResult is read when the response is built
CryptoResponse(ensembleResult, models, storageResult) ==
    [status        |-> 200,
     prediction    |-> ensembleResult.class,
     models_used   |-> ensembleResult.modelsUsed,
     models_failed |-> Len(models) - ensembleResult.modelsUsed,
     stored        |-> storageResult.success,
     storage_id    |-> IdOrNull(storageResult)]

\* the rest of the handler, which runs without an await: the ensemble, the storage call
\* (started, its then-callback not yet run) and the response; an inference that threw, or
\* that left no prediction, is answered with 500
Respond ==
    /\ request.handler \in Handlers
    /\ request.status = "inferring"
    /\ InferenceOver
    /\ request' =
          IF inference.status = "thrown" \/ Len(inference.predictions) = 0
          THEN [request EXCEPT !.status = "responded", !.response = [status |-> 500]]
          ELSE IF request.handler = "predict"
          THEN [request EXCEPT !.status = "responded",
                               !.response = PredictResponse(ensemblePredictions(inference.predictions),
                                                            request.models)]
          ELSE [request EXCEPT !.status = "responded",
                               !.storage = "pending",
                               !.response = CryptoResponse(ensembleCryptoPredictions(inference.predictions),
                                                           request.models, request.storageResult)]
    /\ UNCHANGED <<ensembleVars, pipelineVars, extractVars, utilityVars, inference, loader, limiter>>

\* the storage call settles and its then-callback assigns storageResult
SettleStorage ==
    /\ request.handler \in CryptoHandlers
    /\ request.storage = "pending"
    /\ \E outcome \in StorageOutcomes :
           request' = [request EXCEPT !.storage = outcome, !.storageResult = storeCryptoPredictionAsync(outcome)]
    /\ UNCHANGED <<ensembleVars, pipelineVars, extractVars, utilityVars, inference, loader, limiter>>

InitHandler ==
    /\ request \in {Loaded(handler, models) : handler \in Handlers, models \in ModelLists}
    /\ inference = NoInference
    /\ loader = NoLoader
    /\ limiter = NoLimiter
    /\ IdleEnsemble
    /\ IdlePipeline
    /\ IdleExtract
    /\ IdleUtility

NextHandler ==
    \/ StartInference
    \/ EnterInference
    \/ RunModel
    \/ RunPrediction
    \/ LeaveInference
    \/ Respond
    \/ SettleStorage

SpecHandler == InitHandler /\ [][NextHandler]_vars

(***************************************************************************)
(* Properties of the prediction handlers (SpecHandler)                     *)
(***************************************************************************)
Succeeded200 == request.handler \in Handlers /\ request.status = "responded" /\ request.response.status = 200

\* the number of triples the ensemble averaged
Averaged == Len(inference.predictions)

\* C27: in every 200 response models_used is the number of models whose inference
\* produced a triple (the number of triples averaged), and models_used + models_failed
\* is the number of models attempted.
C27_ModelsUsedCountsAveraged ==
    Succeeded200 =>
        /\ request.response.models_used = Averaged
        /\ "models_failed" \in DOMAIN request.response
        /\ request.response.models_used + request.response.models_failed = Len(request.models)

\* the same for the two handlers of predict-crypto.js
CryptoCountsAveraged ==
    (Succeeded200 /\ request.handler \in CryptoHandlers) =>
        /\ request.response.models_used = Averaged
        /\ request.response.models_used + request.response.models_failed = Len(request.models)

CryptoCountsSeen ==
    /\ Succeeded200
    /\ request.handler \in CryptoHandlers
    /\ request.response.models_used = 1
    /\ request.response.models_failed = 2

StorageSucceeded == request.handler \in CryptoHandlers /\ request.storage = "stored"

\* C28: whenever the storage call of a request succeeded, the 200 response sent for the
\* request has stored = true and storage_id = the id of the stored record.
C28_StoredReportsTheOutcome ==
    StorageSucceeded =>
        /\ request.response.stored = TRUE
        /\ request.response.storage_id = StoredId

\* what the response holds instead, whatever the storage call does
StoredIsAlwaysFalse ==
    (Succeeded200 /\ request.handler \in CryptoHandlers) =>
        /\ request.response.stored = FALSE
        /\ request.response.storage_id = "null"

StorageSeen ==
    /\ Succeeded200
    /\ StorageSucceeded
    /\ request.storageResult = [success |-> TRUE, id |-> StoredId]

(***************************************************************************)
(* LazyModelLoader: callers invoke loadModelLazy at any time; a call runs  *)
(* up to its return without interruption, and the load it started settles *)
(* later.  A promise is its index in loader.promises.                      *)
(***************************************************************************)
MaxLoadCalls == 4
LoaderNames == {"temporal_transformer", "hybrid_transformer"}

\* fs.existsSync(modelPath) when a load starts
FileStates == {"missing", "present"}
\* how tf.loadLayersModel ends: a model, something without predict, or a rejection
LoadOutcomes == {"model", "invalid", "rejects"}

NewLoader ==
    [modelsDir       |-> "models/crypto",
     models          |-> {},
     loadingPromises |-> [m \in LoaderNames |-> 0],
     promises        |-> <<>>,
     stats           |-> [loaded |-> 0, failed |-> 0, attempts |-> 0],
     returns         |-> <<>>]

\* the async function of loadModelLazy up to its first await: a missing file is
\* answered with null, and the finally block deletes loadingPromises[modelName], before
\* the function has returned its promise
StartLoad(ld, modelName, file) ==
    IF file = "missing"
    THEN [ld EXCEPT !.stats.attempts = @ + 1,
                    !.stats.failed = @ + 1,
                    !.loadingPromises[modelName] = 0,
                    !.promises = Append(@, [name |-> modelName, state |-> "null", awaited |-> FALSE])]
    ELSE [ld EXCEPT !.stats.attempts = @ + 1,
                    !.promises = Append(@, [name |-> modelName, state |-> "pending", awaited |-> TRUE])]

\* loadModelLazy(modelName): share the load in flight, else return the cached model, else
\* start a load and store its promise
loadModelLazy(ld, modelName, file) ==
    IF ld.loadingPromises[modelName] # 0
    THEN [ld EXCEPT !.returns = Append(@, <<modelName, "shared", ld.loadingPromises[modelName]>>)]
    ELSE IF modelName \in ld.models
    THEN [ld EXCEPT !.returns = Append(@, <<modelName, "cached", 0>>)]
    ELSE LET started == StartLoad(ld, modelName, file)
         IN  [started EXCEPT !.loadingPromises[modelName] = Len(started.promises),
                             !.returns = Append(@, <<modelName, "started", Len(started.promises)>>)]

\* the rest of the async function, once tf.loadLayersModel has settled
settleLoad(ld, k, outcome) ==
    LET modelName == ld.promises[k].name
    IN  IF outcome = "model"
        THEN [ld EXCEPT !.stats.loaded = @ + 1,
                        !.models = @ \cup {modelName},
                        !.promises[k].state = "model",
                        !.loadingPromises[modelName] = 0]
        ELSE [ld EXCEPT !.stats.failed = @ + 1,
                        !.promises[k].state = "null",
                        !.loadingPromises[modelName] = 0]

LoadModelLazy ==
    /\ loader # NoLoader
    /\ Len(loader.returns) < MaxLoadCalls
    /\ \E modelName \in LoaderNames, file \in FileStates :
           loader' = loadModelLazy(loader, modelName, file)
    /\ UNCHANGED <<ensembleVars, pipelineVars, extractVars, utilityVars, inference, request, limiter>>

SettleLoad ==
    /\ loader # NoLoader
    /\ \E k \in 1..Len(loader.promises), outcome \in LoadOutcomes :
           /\ loader.promises[k].state = "pending"
           /\ loader' = settleLoad(loader, k, outcome)
    /\ UNCHANGED <<ensembleVars, pipelineVars, extractVars, utilityVars, inference, request, limiter>>

InitLoader ==
    /\ loader = NewLoader
    /\ inference = NoInference
    /\ request = NoRequest
    /\ limiter = NoLimiter
    /\ IdleEnsemble
    /\ IdlePipeline
    /\ IdleExtract
    /\ IdleUtility

NextLoader ==
    \/ LoadModelLazy
    \/ SettleLoad

SpecLoader == InitLoader /\ [][NextLoader]_vars

(***************************************************************************)
(* Properties of the loader (SpecLoader)                                   *)
(***************************************************************************)
Loading == loader # NoLoader

\* the loads of model m that have not settled
InFlight(m) == {k \in 1..Len(loader.promises) : loader.promises[k].name = m /\ loader.promises[k].state = "pending"}

\* C29: under any interleaving of loadModelLazy calls at most one load of a model is in
\* flight, loadingPromises[m] is set only while a load of m is in flight (it is removed
\* once the load has settled, however it ended), so that every call for a model that
\* is neither loaded nor loading starts a new attempt.
C29_LoadingPromisesOnlyInFlight ==
    Loading =>
        \A m \in LoaderNames :
            /\ Cardinality(InFlight(m)) <= 1
            /\ loader.loadingPromises[m] # 0 => loader.loadingPromises[m] \in InFlight(m)
            /\ \A c \in 1..Len(loader.returns) :
                   (loader.returns[c][1] = m /\ loader.returns[c][2] = "shared") =>
                       loader.promises[loader.returns[c][3]].awaited

\* at most one load at a time, and the entry of a load that reached its await is removed when it settles
AwaitedLoadsAreRemoved ==
    Loading =>
        \A m \in LoaderNames :
            /\ Cardinality(InFlight(m)) <= 1
            /\ loader.loadingPromises[m] # 0 =>
                   \/ loader.loadingPromises[m] \in InFlight(m)
                   \/ ~loader.promises[loader.loadingPromises[m]].awaited

\* a load settled after its await and a later call started a new attempt; a missing file
\* left its settled promise behind and a later call got it back
LoaderSeen ==
    /\ Loading
    /\ \E c \in 1..Len(loader.returns) :
           /\ loader.returns[c][2] = "started"
           /\ \E b \in 1..(c - 1) :
                  /\ loader.returns[b] = <<loader.returns[c][1], "started", loader.returns[c][3] - 1>>
                  /\ loader.promises[loader.returns[b][3]].awaited
    /\ \E c \in 1..Len(loader.returns) :
           /\ loader.returns[c][2] = "shared"
           /\ loader.promises[loader.returns[c][3]].state = "null"
           /\ ~loader.promises[loader.returns[c][3]].awaited

(***************************************************************************)
(* TwelveDataRateLimiter: time is counted in units of the request spacing  *)
(* (TWELVE_DATA_REQUEST_SPACING_MS); a day is DayTicks units.  Callers     *)
(* invoke waitIfNeeded concurrently (fetchBatch starts all fetches before  *)
(* awaiting any); a call runs without interruption up to its await.        *)
(***************************************************************************)
DailyLimit == 2
MaxCallers == 3
DayTicks   == 3
MaxTime    == 4
Callers == 1..MaxCallers

\* new Date().toDateString() at time t
DateOf(t) == t \div DayTicks

NewLimiter ==
    [dailyLimit    |-> DailyLimit,
     requests      |-> <<>>,
     lastResetDate |-> DateOf(0),
     now           |-> 0,
     pc            |-> [c \in Callers |-> "idle"],
     wakeAt        |-> [c \in Callers |-> 0],
     found         |-> [c \in Callers |-> 0]]

\* the reset at the start of waitIfNeeded
ResetAtMidnight(lm) ==
    IF DateOf(lm.now) # lm.lastResetDate
    THEN [lm EXCEPT !.requests = <<>>, !.lastResetDate = DateOf(lm.now)]
    ELSE lm

\* the daily-limit test: the limit is reached and the oldest request is less than a day old
LimitReached(lm) ==
    /\ Len(lm.requests) >= lm.dailyLimit
    /\ DayTicks - (lm.now - lm.requests[1]) > 0

\* this.requests.push(Date.now())
Push(lm, c) == [lm EXCEPT !.requests = Append(@, lm.now), !.pc[c] = "done"]

\* waitIfNeeded up to its await, for caller c: found[c] is requests.length as the call saw it
waitIfNeeded(lm0, c) ==
    LET lm == [ResetAtMidnight(lm0) EXCEPT !.found[c] = Len(ResetAtMidnight(lm0).requests)]
    IN  IF LimitReached(lm)
        THEN [lm EXCEPT !.pc[c] = "thrown"]
        ELSE IF Len(lm.requests) > 0 /\ lm.now - lm.requests[Len(lm.requests)] < 1
        THEN [lm EXCEPT !.pc[c] = "waiting", !.wakeAt[c] = lm.requests[Len(lm.requests)] + 1]
        ELSE Push(lm, c)

WaitIfNeeded ==
    /\ limiter # NoLimiter
    /\ \E c \in Callers :
           /\ limiter.pc[c] = "idle"
           /\ limiter' = waitIfNeeded(limiter, c)
    /\ UNCHANGED <<ensembleVars, pipelineVars, extractVars, utilityVars, inference, request, loader>>

\* the timer of a waiting caller has fired: the call resumes after its await and records the request
Resume ==
    /\ limiter # NoLimiter
    /\ \E c \in Callers :
           /\ limiter.pc[c] = "waiting"
           /\ limiter.now >= limiter.wakeAt[c]
           /\ limiter' = Push(limiter, c)
    /\ UNCHANGED <<ensembleVars, pipelineVars, extractVars, utilityVars, inference, request, loader>>

\* time passes
Tick ==
    /\ limiter # NoLimiter
    /\ limiter.now < MaxTime
    /\ limiter' = [limiter EXCEPT !.now = @ + 1]
    /\ UNCHANGED <<ensembleVars, pipelineVars, extractVars, utilityVars, inference, request, loader>>

getRemainingRequests(lm) == lm.dailyLimit - Len(lm.requests)

InitLimiter ==
    /\ limiter = NewLimiter
    /\ inference = NoInference
    /\ request = NoRequest
    /\ loader = NoLoader
    /\ IdleEnsemble
    /\ IdlePipeline
    /\ IdleExtract
    /\ IdleUtility

NextLimiter ==
    \/ WaitIfNeeded
    \/ Resume
    \/ Tick

SpecLimiter == InitLimiter /\ [][NextLimiter]_vars

(***************************************************************************)
(* Properties of the rate limiter (SpecLimiter)                            *)
(***************************************************************************)
Limiting == limiter # NoLimiter

\* C30: under any interleaving of concurrent waitIfNeeded callers the limiter never
\* holds more than dailyLimit requests, and getRemainingRequests() is never negative.
C30_NeverOverTheDailyLimit ==
    Limiting =>
        /\ Len(limiter.requests) <= limiter.dailyLimit
        /\ getRemainingRequests(limiter) >= 0

\* what holds: a caller that found the limit reached got an error, and a caller that
\* was given a slot, at once or after its wait, had found the limit not reached
LimitEnforcedOnArrival ==
    Limiting =>
        \A c \in Callers :
            /\ limiter.pc[c] = "thrown" => limiter.found[c] >= limiter.dailyLimit
            /\ limiter.pc[c] \in {"waiting", "done"} => limiter.found[c] < limiter.dailyLimit

\* a caller was refused at the limit while no other caller was waiting
LimiterSeen ==
    /\ Limiting
    /\ \E c \in Callers : limiter.pc[c] = "thrown"
    /\ \A c \in Callers : limiter.pc[c] # "waiting"
    /\ Len(limiter.requests) = limiter.dailyLimit

====
